---------------------------- MODULE Spec2Model ----------------------------
(***************************************************************************)
(* Model of the model orchestrators of neuralnetlib (models.py): layer     *)
(* composition (Sequential.add, Autoencoder.add_encoder_layer), the        *)
(* training loop (fit) of Sequential, Autoencoder, Transformer and GAN     *)
(* with its input checks, save and load of the four classes, one training  *)
(* step (train_on_batch), beam search (Transformer.predict), sampling      *)
(* (Sequential.generate_sequence), the forward pass, the attention masks   *)
(* (Transformer.create_masks) and the Autoencoder's gradient clipping.     *)
(***************************************************************************)
EXTENDS Integers, Sequences, FiniteSets, TLC

VARIABLES
    \* ---- layer composition ----
    kind,        \* which orchestrator owns the list: "Sequential" | "Autoencoder"
    layers,      \* self.layers (Sequential) or self.encoder_layers (Autoencoder)
    last,        \* record of the last add call: the layer, the list before, the outcome
    \* ---- training loop (fit) ----
    variant,            \* "Sequential" | "Autoencoder" | "Transformer" | "GAN"
    args,               \* the arguments of the fit call
    model_random_state, \* self.random_state
    layer_random_state, \* the random_state of the layers that have one
    weights,            \* the parameters, as changed by train_on_batch
    pc,                 \* position in fit
    epoch,              \* the loop variable of `for epoch in range(epochs)`
    j,                  \* the loop variable of the batch loop
    x_shuffled,         \* x_train_shuffled of the current epoch
    y_shuffled,         \* y_train_shuffled of the current epoch
    error,              \* the epoch's loss: [sum, count], the mean as a fraction
    history,            \* the History dict
    trace,              \* callback calls, train_on_batch calls and validation passes, in order
    first,              \* the outcome of the first of two runs
    \* ---- save and load ----
    saved_model,        \* the model that is saved
    document,           \* the persisted document (the JSON file)
    loaded,             \* what load returned or raised
    save_pc,            \* "idle" | "model" | "saved" | "done"
    \* ---- one training step (train_on_batch) ----
    net,                \* the model whose train_on_batch runs
    phase,              \* position in train_on_batch: "idle", "call" or the backward pass that runs
    rev_i,              \* the loop variable i of enumerate(reversed(layers))
    step_log,           \* layer.backward_pass and optimizer.update calls, in order
    batches,            \* train_on_batch calls that have returned
    \* ---- beam search (Transformer.predict) ----
    predict_args,       \* the arguments of Transformer.predict: max_length, beam_size, alpha, min_length
    next_token,         \* the decoder for the first sequence of the beam: per round, the cost (-log_prob) of every token
    beam_sequences,     \* the list of beams, one appended per round
    all_candidates,     \* the candidates of the last round, in the order they were appended
    round_i,            \* the loop variable i of `for i in range(max_length - 1)`
    predict_pc,         \* "idle", "loop", "return" or "done"
    stop_reason,        \* why the loop ended: "none", "no_candidates", "all_eos" or "max_length"
    returned,           \* what predict returned
    \* ---- sampling (Sequential.generate_sequence) ----
    gen_args,           \* the arguments of generate_sequence and the batch size of sequence_start
    current_sequence,   \* the batch of sequences, one row per sequence
    gen_pc,             \* "idle", "start", "loop" or "done"
    gen_log,            \* one record per loop iteration: the length before it, the sampled tokens, whether it ended the loop
    \* ---- the input checks of fit ----
    fit_layers,         \* the types of self.layers (Sequential) or encoder_layers + decoder_layers (Autoencoder)
    x_rank,             \* len(x_train.shape)
    plot_blocked,       \* plot_decision_boundary is asked for and no display is available
    input_error,        \* the ValueError fit raised on its input, or "none"
    \* ---- the forward pass ----
    fwd_net,            \* the model whose forward pass runs
    fwd_call,           \* the entry point called and its arguments
    fwd_pc,             \* "idle", "call", "layers", "encoder", "latent", "decoder", "end" or "done"
    fwd_i,              \* the position of the layer whose forward_pass is next
    fwd_offset,         \* the loop variable i of evaluate's batch loop
    fwd_X,              \* the array handed from layer to layer (X, encoded, decoded)
    latent_space,       \* self.latent_space
    predictions,        \* self.predictions
    fwd_returned,       \* what the forward pass of each batch returned, in order
    fwd_log,            \* the layer.forward_pass calls, in order
    \* ---- the attention masks (Transformer.create_masks) ----
    mask_args,          \* the arguments of create_masks: inp and tar, one row per sequence
    masks,              \* what create_masks returned
    mask_pc,            \* "idle", "call" or "done"
    \* ---- gradient clipping (Autoencoder.backward_pass.clip_gradients) ----
    clip_args,          \* the gradient handed to clip_gradients (None or a tensor) and self.gradient_clip_threshold
    clip_stages,        \* the tensor after each stage that ran, in order
    clip_result,        \* what clip_gradients returned
    clip_pc             \* "idle", "call" or "done"

addVars == <<kind, layers, last>>

fitVars == <<variant, args, model_random_state, layer_random_state, weights, pc,
             epoch, j, x_shuffled, y_shuffled, error, history, trace, first>>

saveVars == <<saved_model, document, loaded, save_pc>>

stepVars == <<net, phase, rev_i, step_log, batches>>

predictVars == <<predict_args, next_token, beam_sequences, all_candidates, round_i, predict_pc, stop_reason, returned>>

genVars == <<gen_args, current_sequence, gen_pc, gen_log>>

inputVars == <<fit_layers, x_rank, plot_blocked, input_error>>

fwdVars == <<fwd_net, fwd_call, fwd_pc, fwd_i, fwd_offset, fwd_X, latent_space, predictions, fwd_returned, fwd_log>>

maskVars == <<mask_args, masks, mask_pc>>

clipVars == <<clip_args, clip_stages, clip_result, clip_pc>>

vars == <<addVars, fitVars, saveVars, stepVars, predictVars, genVars, inputVars, fwdVars, maskVars, clipVars>>

\* What an operation of one part leaves alone.
notAddVars == <<fitVars, saveVars, stepVars, predictVars, genVars, inputVars, fwdVars, maskVars, clipVars>>
notFitVars == <<addVars, saveVars, stepVars, predictVars, genVars, inputVars, fwdVars, maskVars, clipVars>>
notSaveVars == <<addVars, fitVars, stepVars, predictVars, genVars, inputVars, fwdVars, maskVars, clipVars>>
notStepVars == <<addVars, fitVars, saveVars, predictVars, genVars, inputVars, fwdVars, maskVars, clipVars>>
notPredictVars == <<addVars, fitVars, saveVars, stepVars, genVars, inputVars, fwdVars, maskVars, clipVars>>
notGenVars == <<addVars, fitVars, saveVars, stepVars, predictVars, inputVars, fwdVars, maskVars, clipVars>>
notInputVars == <<addVars, fitVars, saveVars, stepVars, predictVars, genVars, fwdVars, maskVars, clipVars>>
notFwdVars == <<addVars, fitVars, saveVars, stepVars, predictVars, genVars, inputVars, maskVars, clipVars>>
notMaskVars == <<addVars, fitVars, saveVars, stepVars, predictVars, genVars, inputVars, fwdVars, clipVars>>
notClipVars == <<addVars, fitVars, saveVars, stepVars, predictVars, genVars, inputVars, fwdVars, maskVars>>

-----------------------------------------------------------------------------
(* Bounds *)

MaxLayers == 3        \* add is called only while the list is shorter than this
MaxEpochs == 2        \* fit is called with epochs in 0..MaxEpochs
MaxN == 3             \* training sets of 1..MaxN samples
MaxBatch == 2         \* batch_size is None or in 1..MaxBatch
MaxSeed == 2          \* seeds are in 1..MaxSeed
MaxRank == 4          \* x_train has 1..MaxRank dimensions

-----------------------------------------------------------------------------
(* Layers.  A layer is a record: its type, the activation it declares      *)
(* (getattr(layer, 'activation', getattr(layer, 'activation_function',     *)
(* None))) and, for the Attention family, its return_sequences flag.       *)

\* What the activation attribute of a layer can hold: nothing, a name, an
\* ActivationFunction instance, an Activation layer instance, or any other
\* truthy object.
ActivationDecls == {"none", "name", "function", "layer", "invalid"}

ValidActivationDecls == {"none", "name", "function", "layer"}

MkLayer(t, a, rs) == [type |-> t, activation |-> a, return_sequences |-> rs]

\* The layers handed to add.  An Activation layer always carries its own
\* activation_function attribute.
LayerInputs ==
    {MkLayer("Input", "none", FALSE)}
    \cup {MkLayer("Dense", a, FALSE) : a \in ActivationDecls}
    \cup {MkLayer("Activation", "function", FALSE)}
    \cup {MkLayer("Conv2D", a, FALSE) : a \in {"none", "name"}}
    \cup {MkLayer("Attention", "none", rs) : rs \in BOOLEAN}

\* The Activation layer that add builds from (or takes as) the declaration.
ActivationLayerOf(decl) == MkLayer("Activation", "function", FALSE)

\* The static table previous type -> disallowed next types.  Types that are
\* not a key of the table (here Input) allow every successor.
incompatibility_dict ==
    [t \in {"Dense", "Activation", "Conv2D", "Attention"} |->
        CASE t = "Dense"      -> {"Conv2D"}
          [] t = "Activation" -> {}
          [] t = "Conv2D"     -> {"Attention"}
          [] t = "Attention"  -> {"Conv2D"}]

\* previous_type in incompatibility_dict and current_type in
\* incompatibility_dict[previous_type]
Incompatible(previous_type, current_type) ==
    /\ previous_type \in DOMAIN incompatibility_dict
    /\ current_type \in incompatibility_dict[previous_type]

NoError == [error |-> "none", current |-> "none", previous |-> "none"]

\* Faulty variants of AddLayer: the first-layer test left out.
AddLayerNoFirstCheck(k, ls, layer) ==
    IF ls # <<>> /\ Incompatible(ls[Len(ls)].type, layer.type)
    THEN [layers |-> ls,
          result |-> [error |-> "ValueError", current |-> layer.type,
                      previous |-> ls[Len(ls)].type]]
    ELSE IF layer.activation # "none" /\ layer.type # "Activation"
         THEN IF layer.activation \in {"name", "function", "layer"}
              THEN [layers |-> Append(Append(ls, layer), ActivationLayerOf(layer.activation)),
                    result |-> NoError]
              ELSE [layers |-> Append(ls, layer),
                    result |-> [error |-> "ValueError", current |-> "none",
                                previous |-> "none"]]
         ELSE [layers |-> Append(ls, layer), result |-> NoError]

\* Faulty variant of AddLayer: the Activation is appended before the layer.
AddLayerActivationFirst(k, ls, layer) ==
    IF ls = <<>> /\ layer.type # "Input"
    THEN [layers |-> ls,
          result |-> [error |-> "ValueError", current |-> "none", previous |-> "none"]]
    ELSE IF ls # <<>> /\ Incompatible(ls[Len(ls)].type, layer.type)
    THEN [layers |-> ls,
          result |-> [error |-> "ValueError", current |-> layer.type,
                      previous |-> ls[Len(ls)].type]]
    ELSE LET prev == IF /\ k = "Sequential"
                        /\ ls # <<>>
                        /\ ls[Len(ls)].type = "Attention"
                        /\ layer.type = "Dense"
                     THEN [ls EXCEPT ![Len(ls)].return_sequences = FALSE]
                     ELSE ls
         IN  IF layer.activation # "none" /\ layer.type # "Activation"
             THEN IF layer.activation \in {"name", "function", "layer"}
                  THEN [layers |-> Append(Append(prev, ActivationLayerOf(layer.activation)), layer),
                        result |-> NoError]
                  ELSE [layers |-> Append(prev, layer),
                        result |-> [error |-> "ValueError", current |-> "none",
                                    previous |-> "none"]]
             ELSE [layers |-> Append(prev, layer), result |-> NoError]

\* Sequential.add (k = "Sequential") and Autoencoder.add_encoder_layer
\* (k = "Autoencoder") on the list ls: the list afterwards and the outcome.
\* A ValueError of the incompatible case names both types in its message.
AddLayer(k, ls, layer) ==
    IF ls = <<>> /\ layer.type # "Input"
    THEN [layers |-> ls,
          result |-> [error |-> "ValueError", current |-> "none", previous |-> "none"]]
    ELSE IF ls # <<>> /\ Incompatible(ls[Len(ls)].type, layer.type)
    THEN [layers |-> ls,
          result |-> [error |-> "ValueError", current |-> layer.type,
                      previous |-> ls[Len(ls)].type]]
    ELSE \* only Sequential.add switches the attention layer's flag off
         LET prev == IF /\ k = "Sequential"
                        /\ ls # <<>>
                        /\ ls[Len(ls)].type = "Attention"
                        /\ layer.type = "Dense"
                     THEN [ls EXCEPT ![Len(ls)].return_sequences = FALSE]
                     ELSE ls
         IN  IF layer.activation # "none" /\ layer.type # "Activation"
             THEN IF layer.activation \in {"name", "function", "layer"}
                  THEN [layers |-> Append(Append(prev, layer), ActivationLayerOf(layer.activation)),
                        result |-> NoError]
                  ELSE \* the layer is already appended when the error is raised
                       [layers |-> Append(prev, layer),
                        result |-> [error |-> "ValueError", current |-> "none",
                                    previous |-> "none"]]
             ELSE [layers |-> Append(prev, layer), result |-> NoError]

NoCall == [called |-> FALSE, layer |-> MkLayer("Input", "none", FALSE),
           before |-> <<>>, result |-> NoError]

\* The training loop at rest: no fit call is in progress.
IdleFit ==
    /\ variant = "Sequential"
    /\ args = [epochs |-> 0, n |-> 1, batch_size |-> 0, verbose |-> FALSE,
               metrics |-> FALSE, random_state |-> 0, validation |-> FALSE,
               callbacks |-> <<>>]
    /\ model_random_state = 1
    /\ layer_random_state = 1
    /\ weights = 0
    /\ pc = "idle"
    /\ epoch = 0
    /\ j = 0
    /\ x_shuffled = <<>>
    /\ y_shuffled = <<>>
    /\ error = [sum |-> 0, count |-> 1]
    /\ history = [k \in {"loss", "val_loss"} |-> <<>>]
    /\ trace = <<>>
    /\ first = [done |-> FALSE, seed |-> 0, trace |-> <<>>, loss |-> <<>>]

\* No model is being saved or loaded.
NoModel == [layers |-> <<>>, loss_function |-> [name |-> "None", delta |-> 0],
            optimizer |-> [name |-> "None", learning_rate |-> 0],
            gradient_clip_threshold |-> 5, enable_padding |-> FALSE,
            padding_size |-> 32, random_state |-> 1]

NoDocument == [type |-> "none"]

NotLoaded == [status |-> "none", model |-> NoModel]

IdleSave ==
    /\ saved_model = NoModel
    /\ document = NoDocument
    /\ loaded = NotLoaded
    /\ save_pc = "idle"

\* No train_on_batch call is in progress.
IdleStep ==
    /\ net = [class |-> "none"]
    /\ phase = "idle"
    /\ rev_i = 0
    /\ step_log = <<>>
    /\ batches = 0

\* No predict call is in progress.
IdlePredict ==
    /\ predict_args = [max_length |-> 1, beam_size |-> 1, alpha |-> 0, min_length |-> 1]
    /\ next_token = <<>>
    /\ beam_sequences = <<>>
    /\ all_candidates = <<>>
    /\ round_i = 0
    /\ predict_pc = "idle"
    /\ stop_reason = "none"
    /\ returned = <<>>

\* No generate_sequence call is in progress.
IdleGen ==
    /\ gen_args = [batch |-> 1, max_length |-> 1, has_stop |-> FALSE, stop_token |-> 0,
                   min_length |-> 0, scaled |-> FALSE]
    /\ current_sequence = <<>>
    /\ gen_pc = "idle"
    /\ gen_log = <<>>

\* The fit call on a dense model with a 2-D input and no plot.
IdleInput ==
    /\ fit_layers = <<"Input", "Dense">>
    /\ x_rank = 2
    /\ plot_blocked = FALSE
    /\ input_error = "none"

\* An array: its rows (the number of the input row each comes from, 0 for a
\* row of zeros), its feature width and the transformations that made it.
NoArray == [rows |-> <<>>, width |-> 0, via |-> <<>>]

\* No forward pass is in progress.
IdleForward ==
    /\ fwd_net = [class |-> "Sequential", layers |-> <<>>, enable_padding |-> FALSE,
                  padding_size |-> 1]
    /\ fwd_call = [entry |-> "predict", n |-> 1, batch_size |-> 1, output_latent |-> FALSE]
    /\ fwd_pc = "idle"
    /\ fwd_i = 1
    /\ fwd_offset = 0
    /\ fwd_X = NoArray
    /\ latent_space = NoArray
    /\ predictions = NoArray
    /\ fwd_returned = <<>>
    /\ fwd_log = <<>>

\* No create_masks call is in progress.
IdleMasks ==
    /\ mask_args = [inp |-> <<>>, tar |-> <<>>]
    /\ masks = <<>>
    /\ mask_pc = "idle"

\* The gradient None: a tensor is its elements, each a fraction [num, den]
\* with den > 0, and the tensor whose standard deviation (plus 1e-8) it was
\* divided by, <<>> when it was not divided.
NoGradient == [is_none |-> TRUE, elems |-> <<>>, std_of |-> <<>>]

\* No clip_gradients call is in progress.
IdleClip ==
    /\ clip_args = [gradient |-> NoGradient, threshold |-> 5]
    /\ clip_stages = <<>>
    /\ clip_result = NoGradient
    /\ clip_pc = "idle"

InitAdd ==
    /\ kind \in {"Sequential", "Autoencoder"}
    /\ layers = <<>>
    /\ last = NoCall
    /\ IdleFit
    /\ IdleSave
    /\ IdleStep
    /\ IdlePredict
    /\ IdleGen
    /\ IdleInput
    /\ IdleForward
    /\ IdleMasks
    /\ IdleClip

\* One call of add / add_encoder_layer.
Add ==
    /\ Len(layers) < MaxLayers
    /\ \E layer \in LayerInputs :
         LET r == AddLayer(kind, layers, layer)
         IN  /\ layers' = r.layers
             /\ last' = [called |-> TRUE, layer |-> layer,
                         before |-> layers, result |-> r.result]
    /\ UNCHANGED <<kind, notAddVars>>

NextAdd == Add

SpecAdd == InitAdd /\ [][NextAdd]_vars

-----------------------------------------------------------------------------
(* Claims about layer composition *)

\* The condition under which the claim says add succeeds.
AddAllowed(ls, layer) ==
    \/ ls = <<>> /\ layer.type = "Input"
    \/ /\ ls # <<>>
       /\ ~ (/\ ls[Len(ls)].type \in DOMAIN incompatibility_dict
             /\ layer.type \in incompatibility_dict[ls[Len(ls)].type])

\* C1: for a layer with no or a valid activation declaration, add succeeds
\* exactly when the list is empty and the layer is an Input, or the list is
\* non-empty and the layer's type is not disallowed after the last layer's
\* type; otherwise it raises ValueError (naming both types when they are
\* incompatible) and leaves the list as it was; a non-empty list starts
\* with an Input.
C1_AddRule ==
    /\ (last.called /\ last.layer.activation \in ValidActivationDecls) =>
          /\ (last.result.error = "none") <=> AddAllowed(last.before, last.layer)
          /\ (last.result.error # "none") =>
                /\ last.result.error = "ValueError"
                /\ layers = last.before
                /\ (last.before # <<>> =>
                       /\ last.result.current = last.layer.type
                       /\ last.result.previous = last.before[Len(last.before)].type)
    /\ (layers # <<>> => layers[1].type = "Input")

\* C1 witness: both a rejected call on a non-empty list of either
\* orchestrator has happened and the list still starts with an Input.
C1_Witness ==
    /\ last.called
    /\ kind = "Autoencoder"
    /\ last.result.error = "ValueError"
    /\ last.result.previous = "Dense"
    /\ last.result.current = "Conv2D"
    /\ Len(layers) = 2
    /\ layers = last.before

\* Whether the claim's "declares an activation and is not an Activation".
DeclaresActivation(layer) ==
    layer.type # "Activation" /\ layer.activation \in {"name", "function", "layer"}

\* The shape of the list after a successful add of last.layer to a list of
\* length n: L at position n (0-based), followed by an Activation layer
\* exactly when L declares one.
AddedShape ==
    LET n == Len(last.before)
    IN  IF DeclaresActivation(last.layer)
        THEN /\ Len(layers) = n + 2
             /\ layers[n + 1] = last.layer
             /\ layers[n + 2].type = "Activation"
        ELSE /\ Len(layers) = n + 1
             /\ layers[n + 1] = last.layer

\* Sequential.add with a Dense layer after an Attention layer.
DenseAfterAttention ==
    /\ kind = "Sequential"
    /\ last.before # <<>>
    /\ last.before[Len(last.before)].type = "Attention"
    /\ last.layer.type = "Dense"

\* C2 as stated: after a successful add the list has the shape above and
\* the layers at positions 0..n-1 are unchanged.
C2_Original ==
    (last.called /\ last.result.error = "none") =>
        /\ AddedShape
        /\ SubSeq(layers, 1, Len(last.before)) = last.before

\* C2 amended: after a successful add the list has the shape above and the
\* layers at positions 0..n-1 are the same layers in the same order, unchanged
\* except that Sequential.add of a Dense layer after an Attention layer sets
\* that Attention layer's return_sequences flag to False.
C2_AddShape ==
    (last.called /\ last.result.error = "none") =>
        /\ AddedShape
        /\ SubSeq(layers, 1, Len(last.before)) =
              IF DenseAfterAttention
              THEN [last.before EXCEPT ![Len(last.before)].return_sequences = FALSE]
              ELSE last.before

\* C2 witness: a Dense layer declaring an activation was added after an
\* Attention layer that returned sequences; the list grew by two and the
\* Attention layer's flag is now off.
C2_Witness ==
    /\ last.called
    /\ last.result.error = "none"
    /\ DenseAfterAttention
    /\ last.before[Len(last.before)].return_sequences
    /\ DeclaresActivation(last.layer)
    /\ Len(layers) = Len(last.before) + 2
    /\ ~ layers[Len(last.before)].return_sequences
    /\ layers[Len(layers)].type = "Activation"

\* C30: whenever Sequential.add or Autoencoder.add_encoder_layer raises an
\* error, for any reason including an invalid activation specification on
\* the layer being added, the layer list is exactly what it was before the
\* call.
C30_FailedAddLeavesList ==
    (last.called /\ last.result.error # "none") => layers = last.before

-----------------------------------------------------------------------------
(* The training loop: fit of Sequential, Autoencoder, Transformer and GAN. *)
(* None is written 0 for batch_size and random_state (seeds are >= 1).     *)

IdleAdd ==
    /\ kind = "Sequential"
    /\ layers = <<>>
    /\ last = NoCall

Variants == {"Sequential", "Autoencoder", "Transformer", "GAN"}

\* The callbacks lists fit is called with, by the class of each callback.
CallbackLists ==
    {<<>>, <<"EarlyStopping">>, <<"Callback">>,
     <<"EarlyStopping", "Callback">>, <<"Callback", "EarlyStopping">>}

Min(a, b) == IF a < b THEN a ELSE b

RECURSIVE SumSeq(_)
SumSeq(s) == IF s = <<>> THEN 0 ELSE s[1] + SumSeq(Tail(s))

\* The training data: sample i of x_train is i; its target is written -i.
\* Autoencoder.train_on_batch takes the batch itself as the target; the GAN
\* has no targets.
x_train(n) == [i \in 1..n |-> i]

y_train(v, n) ==
    IF v \in {"Sequential", "Transformer"}
    THEN [i \in 1..n |-> 0 - i]
    ELSE [i \in 1..n |-> i]

\* rng.permutation(n) of np.random.default_rng(seed): a fixed function of
\* the seed and n.
permutation(seed, n) == [i \in 1..n |-> ((i - 1 + seed) % n) + 1]

\* x[indices]
Take(x, indices) == [i \in 1..Len(indices) |-> x[indices[i]]]

\* Faulty variant of shuffle: only the inputs are reordered.
shuffleInputsOnly(x, y, random_state) ==
    <<Take(x, permutation(random_state, Len(x))), y>>

\* utils.shuffle(x, y, random_state) with a seed given.
shuffle(x, y, random_state) ==
    LET indices == permutation(random_state, Len(x))
    IN  <<Take(x, indices), Take(y, indices)>>

\* Faulty variant of ShuffleSeed: the explicit seed is ignored.
ShuffleSeedOfModel(random_state, self_random_state) == self_random_state

\* random_state if random_state is not None else self.random_state
ShuffleSeed(random_state, self_random_state) ==
    IF random_state # 0 THEN random_state ELSE self_random_state

\* The shuffle of one epoch: [raised, x, y].
\*   Sequential, Autoencoder: utils.shuffle with the explicit or the model's seed;
\*   Transformer: the indices are shuffled only when random_state is given;
\*   GAN: shuffle(x_train, random_state=random_state) omits the required
\*        argument y, so the call raises TypeError.
ShuffleEpoch(v, x, y, random_state, self_random_state) ==
    CASE v \in {"Sequential", "Autoencoder"} ->
           LET s == shuffle(x, y, ShuffleSeed(random_state, self_random_state))
           IN  [raised |-> FALSE, x |-> s[1], y |-> s[2]]
      [] v = "Transformer" ->
           IF random_state # 0
           THEN LET s == shuffle(x, y, ShuffleSeed(random_state, self_random_state))
                IN  [raised |-> FALSE, x |-> s[1], y |-> s[2]]
           ELSE [raised |-> FALSE, x |-> x, y |-> y]
      [] v = "GAN" -> [raised |-> TRUE, x |-> <<>>, y |-> <<>>]

\* s[from:to]
Slice(s, from, to) == SubSeq(s, from + 1, Min(to, Len(s)))

\* np.ceil(n / batch_size)
NumBatches(n, batch_size) == (n + batch_size - 1) \div batch_size

\* train_on_batch: forward pass, loss, backward pass with optimizer updates.
\* The arithmetic is deterministic: the loss and the new parameters are
\* functions of the parameters, the batch and the layers' seed.
BatchCode(xb, yb) == 3 * SumSeq([i \in 1..Len(xb) |-> i * xb[i]])
                     + SumSeq([i \in 1..Len(yb) |-> i * yb[i]])

LossOf(w, xb, yb, seed) == w + BatchCode(xb, yb) + seed

UpdatedWeights(w, xb, yb, seed) == 2 * w + BatchCode(xb, yb) + seed + 1

\* The keys History starts with, and those added for the metrics.
HistoryKeys(v, metrics, validation) ==
    IF v = "GAN"
    THEN {"discriminator_loss", "generator_loss", "val_discriminator_loss",
          "val_generator_loss"}
         \cup (IF metrics THEN {"discriminator_m", "generator_m"} ELSE {})
         \cup (IF metrics /\ validation
               THEN {"val_discriminator_m", "val_generator_m"} ELSE {})
    ELSE {"loss", "val_loss"} \cup (IF metrics THEN {"m", "val_m"} ELSE {})

\* history[key].append(value) for every key of keys
AppendAll(h, keys, value) ==
    [k \in DOMAIN h |-> IF k \in keys THEN Append(h[k], value) ELSE h[k]]

\* evaluate(x_test, y_test, batch_size) as fit calls it: Sequential.evaluate
\* and Autoencoder.evaluate divide by batch_size, which raises TypeError
\* when it is None; Transformer.evaluate replaces None by the data's length
\* and GAN.evaluate does not divide.
EvaluateRaises(v, batch_size) ==
    v \in {"Sequential", "Autoencoder"} /\ batch_size = 0

Event(ev, cb, e, ret, xb, yb) ==
    [ev |-> ev, cb |-> cb, epoch |-> e, ret |-> ret, x |-> xb, y |-> yb]

\* for callback in callbacks: callback.<ev>(...)
CallAll(ev, callbacks, e) ==
    [i \in 1..Len(callbacks) |-> Event(ev, i, e, FALSE, <<>>, <<>>)]

\* Faulty variant of HonoursReturn: no return value is looked at.
HonoursNoReturn(v, class) == FALSE

\* Whether fit looks at the value on_epoch_end returns: GAN.fit does for
\* every callback, the other three only for EarlyStopping instances.
HonoursReturn(v, class) == v = "GAN" \/ class = "EarlyStopping"

\* The index of the callback at which the on_epoch_end loop breaks, or 0.
RECURSIVE BreakAt(_, _, _, _)
BreakAt(v, callbacks, rets, i) ==
    IF i > Len(callbacks) THEN 0
    ELSE IF HonoursReturn(v, callbacks[i]) /\ rets[i] THEN i
    ELSE BreakAt(v, callbacks, rets, i + 1)

FitArgs(E, N, B, S, V, M, VD, CB) ==
    [epochs : E, n : N, batch_size : B, random_state : S, verbose : V,
     metrics : M, validation : VD, callbacks : CB]

\* The state at the entry of fit.
EnterFit ==
    /\ layer_random_state = 0
    /\ weights = 0
    /\ pc = "start"
    /\ epoch = 0
    /\ j = 0
    /\ x_shuffled = <<>>
    /\ y_shuffled = <<>>
    /\ error = [sum |-> 0, count |-> 1]
    /\ history = [k \in HistoryKeys(variant, args.metrics, args.validation) |-> <<>>]
    /\ trace = <<>>
    /\ first = [done |-> FALSE, seed |-> 0, trace |-> <<>>, loss |-> <<>>]

\* fit with every combination of the optional arguments, on a fixed data set.
InitFit ==
    /\ IdleAdd
    /\ IdleSave
    /\ variant \in Variants
    /\ args \in FitArgs(0..MaxEpochs, {MaxN}, {0, MaxBatch}, {0}, BOOLEAN,
                        BOOLEAN, BOOLEAN, CallbackLists)
    /\ model_random_state = 1
    /\ EnterFit
    /\ IdleStep
    /\ IdlePredict
    /\ IdleGen
    /\ IdleInput
    /\ IdleForward
    /\ IdleMasks
    /\ IdleClip

\* The input check without its Embedding branch.
InputErrorRecurrentOnly(v, ls, rank, blocked) ==
    LET has_lstm_or_gru ==
            \E i \in DOMAIN ls : ls[i] \in {"LSTM", "Bidirectional", "GRU"}
    IN  IF v \notin {"Sequential", "Autoencoder"} THEN "none"
        ELSE IF v = "Sequential" /\ blocked THEN "ValueError: display"
        ELSE IF has_lstm_or_gru /\ rank # 3 THEN "ValueError: 3D"
        ELSE "none"

\* The ValueError the head of fit raises on its input, or "none".  Sequential
\* checks the display first.  A model with a recurrent layer and no Embedding
\* needs a 3-D x_train, a model with an Embedding a 2-D one.  Transformer.fit
\* and GAN.fit have no such check.
InputError(v, ls, rank, blocked) ==
    LET has_lstm_or_gru ==
            \E i \in DOMAIN ls : ls[i] \in {"LSTM", "Bidirectional", "GRU"}
        has_embedding == \E i \in DOMAIN ls : ls[i] = "Embedding"
    IN  IF v \notin {"Sequential", "Autoencoder"} THEN "none"
        ELSE IF v = "Sequential" /\ blocked THEN "ValueError: display"
        ELSE IF has_lstm_or_gru /\ ~ has_embedding
             THEN (IF rank # 3 THEN "ValueError: 3D" ELSE "none")
        ELSE IF has_embedding
             THEN (IF rank # 2 THEN "ValueError: 2D" ELSE "none")
        ELSE "none"

\* The head of fit: the display check (Sequential), the layers' random_state
\* set (Sequential and Autoencoder only), the check of the input's rank, the
\* history set up, on_train_begin called.
TrainBegin ==
    /\ pc = "start"
    /\ LET e == InputError(variant, fit_layers, x_rank, plot_blocked)
       IN  /\ input_error' = e
           /\ layer_random_state' =
                  IF variant \in {"Sequential", "Autoencoder"} /\ e # "ValueError: display"
                  THEN ShuffleSeed(args.random_state, model_random_state)
                  ELSE layer_random_state
           /\ trace' = IF e = "none"
                       THEN trace \o CallAll("on_train_begin", args.callbacks, -1)
                       ELSE trace
           /\ pc' = IF e # "none" THEN "raised"
                    ELSE IF args.epochs > 0 THEN "epoch_begin" ELSE "train_end"
    /\ UNCHANGED <<addVars, saveVars, stepVars, predictVars, genVars, fwdVars, maskVars,
                   clipVars,
                   fit_layers, x_rank, plot_blocked>>
    /\ UNCHANGED <<variant, args, model_random_state, weights, epoch, j,
                   x_shuffled, y_shuffled, error, history, first>>

\* The head of one epoch: on_epoch_begin on every callback, then the shuffle.
EpochBegin ==
    /\ pc = "epoch_begin"
    /\ trace' = trace \o CallAll("on_epoch_begin", args.callbacks, epoch)
    /\ LET s == ShuffleEpoch(variant, x_train(args.n), y_train(variant, args.n),
                             args.random_state, model_random_state)
       IN  /\ pc' = IF s.raised THEN "raised" ELSE "batches"
           /\ x_shuffled' = s.x
           /\ y_shuffled' = s.y
    /\ j' = 0
    /\ error' = [sum |-> 0, count |-> 1]
    /\ UNCHANGED <<notFitVars, variant, args, model_random_state, layer_random_state,
                   weights, epoch, history, first>>

\* One train_on_batch: the next slice of the shuffled data, or, with no
\* batch_size, the whole of x_train and y_train.  With no batch_size and
\* verbose, the metric's value is appended to the history here.
TrainBatch ==
    /\ pc = "batches"
    /\ LET b  == args.batch_size
           xb == IF b # 0 THEN Slice(x_shuffled, j, j + b) ELSE x_train(args.n)
           yb == IF b # 0 THEN Slice(y_shuffled, j, j + b)
                 ELSE y_train(variant, args.n)
           last_one == b = 0 \/ j + b >= args.n
       IN  /\ trace' = Append(trace, Event("train_on_batch", 0, epoch, FALSE, xb, yb))
           /\ weights' = UpdatedWeights(weights, xb, yb, layer_random_state)
           /\ error' = [sum |-> error.sum + LossOf(weights, xb, yb, layer_random_state),
                        count |-> IF b # 0 THEN NumBatches(args.n, b) ELSE 1]
           /\ j' = IF b # 0 THEN j + b ELSE j
           /\ history' = IF b = 0 /\ args.verbose /\ args.metrics /\ variant # "GAN"
                         THEN AppendAll(history, {"m"}, weights)
                         ELSE history
           /\ pc' = IF last_one THEN "validate" ELSE "batches"
    /\ UNCHANGED <<notFitVars, variant, args, model_random_state, layer_random_state,
                   epoch, x_shuffled, y_shuffled, first>>

\* The epoch's loss is appended to the history; with validation_data the
\* validation pass runs and its loss and metrics are appended.
Validate ==
    /\ pc = "validate"
    /\ LET loss_keys == IF variant = "GAN"
                        THEN {"discriminator_loss", "generator_loss"}
                        ELSE {"loss"}
           val_keys == IF variant = "GAN"
                       THEN {"val_discriminator_loss", "val_generator_loss"}
                       ELSE {"val_loss"}
                            \cup (IF args.metrics THEN {"val_m"} ELSE {})
           h1 == AppendAll(history, loss_keys, error)
       IN  IF ~ args.validation
           THEN /\ history' = h1
                /\ pc' = "epoch_end"
                /\ trace' = trace
           ELSE IF EvaluateRaises(variant, args.batch_size)
           THEN /\ history' = h1
                /\ pc' = "raised"
                /\ trace' = trace
           ELSE /\ history' = AppendAll(h1, val_keys, weights)
                /\ pc' = "epoch_end"
                /\ trace' = Append(trace, Event("evaluate", 0, epoch, FALSE, <<>>, <<>>))
    /\ UNCHANGED <<notFitVars, variant, args, model_random_state, layer_random_state,
                   weights, epoch, j, x_shuffled, y_shuffled, error, first>>

\* The on_epoch_end loop: every callback up to the one the loop breaks at is
\* called, each returning a value of its own choice; then the next epoch,
\* or the end of the loop when a stop was requested or the epochs are done.
EpochEnd ==
    /\ pc = "epoch_end"
    /\ \E rets \in [1..Len(args.callbacks) -> BOOLEAN] :
         LET at == BreakAt(variant, args.callbacks, rets, 1)
             called == IF at = 0 THEN Len(args.callbacks) ELSE at
             stop_training == at # 0
         IN  /\ \A i \in (called + 1)..Len(args.callbacks) : ~ rets[i]
             /\ trace' = trace \o [i \in 1..called |->
                                     Event("on_epoch_end", i, epoch, rets[i], <<>>, <<>>)]
             /\ pc' = IF stop_training \/ epoch + 1 >= args.epochs
                      THEN "train_end" ELSE "epoch_begin"
             /\ epoch' = IF stop_training \/ epoch + 1 >= args.epochs
                         THEN epoch ELSE epoch + 1
    /\ UNCHANGED <<notFitVars, variant, args, model_random_state, layer_random_state,
                   weights, j, x_shuffled, y_shuffled, error, history, first>>

\* on_train_end on every callback; fit returns the history.
TrainEnd ==
    /\ pc = "train_end"
    /\ trace' = trace \o CallAll("on_train_end", args.callbacks, -1)
    /\ pc' = "done"
    /\ UNCHANGED <<notFitVars, variant, args, model_random_state, layer_random_state,
                   weights, epoch, j, x_shuffled, y_shuffled, error, history, first>>

NextFit ==
    \/ TrainBegin
    \/ EpochBegin
    \/ TrainBatch
    \/ Validate
    \/ EpochEnd
    \/ TrainEnd

SpecFit == InitFit /\ [][NextFit]_vars

-----------------------------------------------------------------------------
(* Claims about the training loop *)

Callbacks == 1..Len(args.callbacks)

\* The positions of the trace holding the call ev of callback cb in epoch e
\* (cb = 0 for train_on_batch and evaluate, e = -1 outside the epochs).
Calls(ev, cb, e) ==
    {i \in DOMAIN trace : trace[i].ev = ev /\ trace[i].cb = cb /\ trace[i].epoch = e}

TrainCalls == {i \in DOMAIN trace : trace[i].ev = "train_on_batch"}

\* The epochs that were executed, at least in part.
ExecutedEpochs ==
    {trace[i].epoch : i \in {k \in DOMAIN trace :
                                trace[k].ev \in {"on_epoch_begin", "train_on_batch"}}}

\* fit has returned or raised.
Finished == pc \in {"done", "raised"}

\* The number of train_on_batch calls of a complete epoch.
BatchesPerEpoch == IF args.batch_size = 0 THEN 1 ELSE NumBatches(args.n, args.batch_size)

\* C3: in every run of fit the callback events follow the lifecycle order:
\* on_train_begin once on every callback before anything else; per executed
\* epoch, on_epoch_begin on every callback before the epoch's first
\* train_on_batch and on_epoch_end exactly once on every callback after the
\* epoch's last train_on_batch and validation pass; on_train_end exactly once
\* on every callback after the last on_epoch_end.
C3_Lifecycle ==
    \A c \in Callbacks :
       /\ pc # "start" => Cardinality(Calls("on_train_begin", c, -1)) = 1
       /\ \A i \in Calls("on_train_begin", c, -1) :
             \A k \in DOMAIN trace : trace[k].ev # "on_train_begin" => i < k
       /\ \A e \in ExecutedEpochs :
             /\ Cardinality(Calls("on_epoch_begin", c, e)) = 1
             /\ \A i \in Calls("on_epoch_begin", c, e), k \in Calls("train_on_batch", 0, e) :
                   i < k
             /\ \A i \in Calls("on_epoch_end", c, e),
                  k \in Calls("train_on_batch", 0, e) \cup Calls("evaluate", 0, e) : k < i
             /\ Finished => Cardinality(Calls("on_epoch_end", c, e)) = 1
       /\ \A i \in Calls("on_train_end", c, -1) :
             \A k \in DOMAIN trace : trace[k].ev = "on_epoch_end" => k < i
       /\ Finished => Cardinality(Calls("on_train_end", c, -1)) = 1

\* The positions at which an EarlyStopping callback's on_epoch_end returned true.
EarlyStops ==
    {p \in DOMAIN trace : /\ trace[p].ev = "on_epoch_end"
                          /\ trace[p].ret
                          /\ args.callbacks[trace[p].cb] = "EarlyStopping"}

\* C4: when an early-stopping callback's on_epoch_end returns true at epoch
\* e, all batches of epoch e were trained before it, no train_on_batch of a
\* later epoch is executed, and fit still calls on_train_end exactly once
\* on every callback before it returns.
C4_EarlyStop ==
    \A p \in EarlyStops :
       /\ Cardinality({k \in Calls("train_on_batch", 0, trace[p].epoch) : k < p})
             = BatchesPerEpoch
       /\ \A k \in TrainCalls : trace[k].epoch <= trace[p].epoch /\ k < p
       /\ pc \in {"train_end", "done"}
       /\ pc = "done" => \A c \in Callbacks : Cardinality(Calls("on_train_end", c, -1)) = 1

\* C4 witness: a Sequential fit of two epochs has returned after its second
\* callback, an EarlyStopping, asked for a stop in the first epoch; both
\* callbacks got on_train_end.
C4_Witness ==
    /\ variant = "Sequential"
    /\ pc = "done"
    /\ args.epochs = 2
    /\ args.batch_size # 0
    /\ args.callbacks = <<"Callback", "EarlyStopping">>
    /\ \E p \in EarlyStops : trace[p].epoch = 0
    /\ \A c \in Callbacks : Cardinality(Calls("on_train_end", c, -1)) = 1

\* C5: a true return value of on_epoch_end of any callback, whatever its
\* class, requests a stop: no later epoch is trained.
C5_AnyCallbackStops ==
    \A p \in DOMAIN trace :
       (trace[p].ev = "on_epoch_end" /\ trace[p].ret) =>
          \A k \in TrainCalls : trace[k].epoch <= trace[p].epoch

\* C6: when Sequential.fit returns after k executed epochs, history['loss']
\* holds k values, and so does the history of every metric (and val_loss
\* and the validation metrics with validation_data), whatever batch_size
\* and verbose are; during fit no sequence holds more values than epochs
\* were started.
C6_HistoryLengths ==
    variant = "Sequential" =>
       /\ \A key \in DOMAIN history : Len(history[key]) <= Cardinality(ExecutedEpochs)
       /\ pc = "done" =>
             /\ Len(history["loss"]) = Cardinality(ExecutedEpochs)
             /\ args.metrics => Len(history["m"]) = Cardinality(ExecutedEpochs)
             /\ args.validation =>
                   Len(history["val_loss"]) = Cardinality(ExecutedEpochs)
             /\ (args.validation /\ args.metrics) =>
                   Len(history["val_m"]) = Cardinality(ExecutedEpochs)

-----------------------------------------------------------------------------
(* The shuffle and the batches: fit on data sets of every size, with and   *)
(* without batch_size and an explicit random_state, on models with any     *)
(* persistent seed.                                                        *)

InitShuffle ==
    /\ IdleAdd
    /\ IdleSave
    /\ variant \in Variants
    /\ args \in FitArgs(1..MaxEpochs, 1..MaxN, 0..MaxBatch, 0..MaxSeed, {FALSE},
                        {FALSE}, {FALSE}, {<<>>})
    /\ model_random_state \in 1..MaxSeed
    /\ EnterFit
    /\ IdleStep
    /\ IdlePredict
    /\ IdleGen
    /\ IdleInput
    /\ IdleForward
    /\ IdleMasks
    /\ IdleClip

SpecShuffle == InitShuffle /\ [][NextFit]_vars

\* The train_on_batch calls of epoch e, in order.
EpochBatches(e) ==
    LET InEpoch(ev) == ev.ev = "train_on_batch" /\ ev.epoch = e
    IN  SelectSeq(trace, InEpoch)

\* ceil(n / b), stated without the code's arithmetic.
Ceil(n, b) == CHOOSE k \in 0..n : k * b >= n /\ (k = 0 \/ (k - 1) * b < n)

\* C7: in each epoch of Sequential.fit over n >= 1 samples with batch_size
\* b >= 1, train_on_batch is called ceil(n/b) times on the consecutive slices
\* [0,b), [b,2b), ... of the shuffled data: every sample, paired with its own
\* target, is in exactly one batch; every batch has b samples except possibly
\* the last, which has n - b*(ceil(n/b)-1).  With no batch_size there is one
\* call, on the whole data set.
C7_Batches ==
    (variant = "Sequential" /\ pc = "validate") =>
       LET n  == args.n
           b  == args.batch_size
           bs == EpochBatches(epoch)
       IN  IF b = 0
           THEN /\ Len(bs) = 1
                /\ bs[1].x = x_train(n)
                /\ bs[1].y = y_train(variant, n)
           ELSE /\ Len(bs) = Ceil(n, b)
                /\ \A i \in 1..Len(bs) :
                      /\ Len(bs[i].x) = IF i < Len(bs) THEN b ELSE n - b * (Ceil(n, b) - 1)
                      /\ Len(bs[i].y) = Len(bs[i].x)
                      /\ \A q \in 1..Len(bs[i].x) :
                            /\ bs[i].x[q] = x_shuffled[(i - 1) * b + q]
                            /\ bs[i].y[q] = y_shuffled[(i - 1) * b + q]
                /\ \A s \in 1..n :
                      /\ Cardinality({iq \in {<<i, q>> : i \in 1..Len(bs), q \in 1..b} :
                                         /\ iq[2] <= Len(bs[iq[1]].x)
                                         /\ bs[iq[1]].x[iq[2]] = s}) = 1
                      /\ \A i \in 1..Len(bs) : \A q \in 1..Len(bs[i].x) :
                            bs[i].x[q] = s => bs[i].y[q] = y_train(variant, n)[s]

\* C7 witness: an epoch of three samples in batches of two is complete: two
\* batches, the last with one sample, in an order that is not the data's.
C7_Witness ==
    /\ variant = "Sequential"
    /\ pc = "validate"
    /\ args.n = 3
    /\ args.batch_size = 2
    /\ Len(EpochBatches(epoch)) = 2
    /\ Len(EpochBatches(epoch)[2].x) = 1
    /\ x_shuffled # x_train(3)

\* C8: in the fit loop of every variant each epoch's data is reordered by
\* one permutation applied to inputs and targets alike, derived from the
\* explicit random_state when given and else from the model's own
\* random_state; the shuffle is never skipped.
C8_ShuffleEveryEpoch ==
    /\ pc # "raised"
    /\ pc \in {"batches", "validate", "epoch_end"} =>
          LET seed == IF args.random_state # 0 THEN args.random_state
                      ELSE model_random_state
              p == permutation(seed, args.n)
          IN  /\ x_shuffled = Take(x_train(args.n), p)
              /\ y_shuffled = Take(y_train(variant, args.n), p)

-----------------------------------------------------------------------------
(* Two runs of Sequential.fit with the same arguments, on two identically  *)
(* constructed models: the same layers and initial parameters; the second  *)
(* model's persistent random_state is its own.                             *)

InitRepro ==
    /\ IdleAdd
    /\ IdleSave
    /\ variant = "Sequential"
    /\ args \in FitArgs(1..MaxEpochs, 1..MaxN, 0..MaxBatch, 0..MaxSeed, {FALSE},
                        {FALSE}, {FALSE}, {<<>>})
    /\ model_random_state \in 1..MaxSeed
    /\ EnterFit
    /\ IdleStep
    /\ IdlePredict
    /\ IdleGen
    /\ IdleInput
    /\ IdleForward
    /\ IdleMasks
    /\ IdleClip

\* The first run has returned; the second starts on a fresh model.
SecondRun ==
    /\ pc = "done"
    /\ ~ first.done
    /\ first' = [done |-> TRUE, seed |-> model_random_state, trace |-> trace,
                 loss |-> history["loss"]]
    /\ model_random_state' \in 1..MaxSeed
    /\ layer_random_state' = 0
    /\ weights' = 0
    /\ pc' = "start"
    /\ epoch' = 0
    /\ j' = 0
    /\ x_shuffled' = <<>>
    /\ y_shuffled' = <<>>
    /\ error' = [sum |-> 0, count |-> 1]
    /\ history' = [k \in HistoryKeys(variant, args.metrics, args.validation) |-> <<>>]
    /\ trace' = <<>>
    /\ UNCHANGED <<notFitVars, variant, args>>

NextRepro ==
    \/ NextFit
    \/ SecondRun

SpecRepro == InitRepro /\ [][NextRepro]_vars

-----------------------------------------------------------------------------
(* Save and load of a compiled Sequential model.                           *)

\* The loss classes of losses.py, with the hyperparameter of HuberLoss.
LossInstances ==
    {[name |-> c, delta |-> 0] :
        c \in {"MeanSquaredError", "BinaryCrossentropy", "CategoricalCrossentropy",
               "SparseCategoricalCrossentropy", "MeanAbsoluteError",
               "KullbackLeiblerDivergence", "SequenceCrossEntropy"}}
    \cup {[name |-> "HuberLoss", delta |-> d] : d \in {1, 2}}

\* LossFunction.get_config, overridden by HuberLoss; SequenceCrossEntropy
\* is no LossFunction and has no get_config (AttributeError).
LossGetConfig(l) ==
    CASE l.name = "SequenceCrossEntropy" -> [raised |-> "AttributeError"]
      [] l.name = "HuberLoss" -> [raised |-> "none", name |-> l.name, delta |-> l.delta]
      [] OTHER -> [raised |-> "none", name |-> l.name]

\* LossFunction.from_config: the result, or the ValueError of the else branch.
LossFromConfig(config) ==
    CASE config.name \in {"MeanSquaredError", "BinaryCrossentropy",
                          "CategoricalCrossentropy", "MeanAbsoluteError",
                          "KullbackLeiblerDivergence"} ->
           [raised |-> "none", loss |-> [name |-> config.name, delta |-> 0]]
      [] config.name = "HuberLoss" ->
           [raised |-> "none", loss |-> [name |-> "HuberLoss", delta |-> config.delta]]
      [] OTHER -> [raised |-> "ValueError", loss |-> [name |-> "None", delta |-> 0]]

\* Optimizer.get_config / Optimizer.from_config: a tag and the hyperparameters.
OptimizerInstances ==
    {[name |-> o, learning_rate |-> r] : o \in {"SGD", "Adam"}, r \in {1, 2}}

OptimizerGetConfig(o) == [name |-> o.name, learning_rate |-> o.learning_rate]

OptimizerFromConfig(config) ==
    [name |-> config.name, learning_rate |-> config.learning_rate]

\* Layer.get_config / Layer.from_config: a tag for the layer type and its
\* hyperparameters.
LayerGetConfig(l) ==
    [name |-> l.type, activation |-> l.activation,
     return_sequences |-> l.return_sequences]

LayerFromConfig(config) ==
    MkLayer(config.name, config.activation, config.return_sequences)

\* The layer lists of the saved models, as add builds them.
LayerLists ==
    {<<MkLayer("Input", "none", FALSE)>>,
     <<MkLayer("Input", "none", FALSE), MkLayer("Dense", "name", FALSE),
       MkLayer("Activation", "function", FALSE)>>,
     <<MkLayer("Input", "none", FALSE), MkLayer("Attention", "none", FALSE),
       MkLayer("Dense", "none", FALSE)>>}

\* Sequential models, compiled with a loss and an optimizer.
CompiledModels ==
    [layers : LayerLists, loss_function : LossInstances,
     optimizer : OptimizerInstances, gradient_clip_threshold : {1, 5},
     enable_padding : BOOLEAN, padding_size : {8, 32},
     random_state : 1..MaxSeed]

InitSave ==
    /\ IdleAdd
    /\ IdleFit
    /\ saved_model \in CompiledModels
    /\ document = NoDocument
    /\ loaded = NotLoaded
    /\ save_pc = "model"
    /\ IdleStep
    /\ IdlePredict
    /\ IdleGen
    /\ IdleInput
    /\ IdleForward
    /\ IdleMasks
    /\ IdleClip

\* Sequential.save: the document, or the error get_config raises.
SaveDocument(m) ==
    LET lc == LossGetConfig(m.loss_function)
    IN  IF lc.raised # "none"
        THEN [type |-> "raised", error |-> lc.raised]
        ELSE [type |-> "Sequential",
              layers |-> [i \in 1..Len(m.layers) |-> LayerGetConfig(m.layers[i])],
              gradient_clip_threshold |-> m.gradient_clip_threshold,
              enable_padding |-> m.enable_padding,
              padding_size |-> m.padding_size,
              random_state |-> m.random_state,
              loss_function |-> lc,
              optimizer |-> OptimizerGetConfig(m.optimizer)]

\* dict.get(key, default) on a persisted document.
Get(doc, key, default) == IF key \in DOMAIN doc THEN doc[key] ELSE default

\* Sequential.load: cls() with its defaults (random_state from the clock,
\* now), every key of the document that is an attribute of the model set on
\* it, the layers rebuilt each from its configuration
\* (model_state.get('layers', [])), then the loss and the optimizer when the
\* document has them; LossFunction.from_config may raise.  The 'type' key is
\* never read.
LoadDocument(doc, now) ==
    LET lf == IF "loss_function" \in DOMAIN doc
              THEN LossFromConfig(doc.loss_function)
              ELSE [raised |-> "none", loss |-> NoModel.loss_function]
        configs == Get(doc, "layers", <<>>)
    IN  IF lf.raised # "none"
        THEN [status |-> lf.raised, model |-> NoModel]
        ELSE [status |-> "ok",
              model |-> [layers |-> [i \in 1..Len(configs) |->
                                       LayerFromConfig(configs[i])],
                         loss_function |-> lf.loss,
                         optimizer |-> IF "optimizer" \in DOMAIN doc
                                       THEN OptimizerFromConfig(doc.optimizer)
                                       ELSE NoModel.optimizer,
                         gradient_clip_threshold |->
                             Get(doc, "gradient_clip_threshold", 5),
                         enable_padding |-> Get(doc, "enable_padding", FALSE),
                         padding_size |-> Get(doc, "padding_size", 32),
                         random_state |-> Get(doc, "random_state", now)]]

\* save(filename)
Save ==
    /\ save_pc = "model"
    /\ document' = SaveDocument(saved_model)
    /\ IF document'.type = "raised"
       THEN /\ save_pc' = "done"
            /\ loaded' = [status |-> document'.error, model |-> NoModel]
       ELSE /\ save_pc' = "saved"
            /\ loaded' = loaded
    /\ UNCHANGED <<notSaveVars, saved_model>>

\* Sequential.load(filename)
Load ==
    /\ save_pc = "saved"
    /\ \E now \in 1..MaxSeed : loaded' = LoadDocument(document, now)
    /\ save_pc' = "done"
    /\ UNCHANGED <<notSaveVars, saved_model, document>>

NextSave ==
    \/ Save
    \/ Load

SpecSave == InitSave /\ [][NextSave]_vars

\* C10: for a compiled Sequential model m, load(save(m)) returns a model
\* with the same layers in the same order, the same loss-function and
\* optimizer configuration and the same gradient_clip_threshold,
\* enable_padding, padding_size and random_state.
C10_RoundTrip ==
    save_pc = "done" =>
       /\ loaded.status = "ok"
       /\ loaded.model = saved_model

\* C26: for every loss class and every instance l of it,
\* LossFunction.from_config(l.get_config()) is a loss of the same class with
\* the same hyperparameters, so a model compiled with any provided loss is
\* saved and loaded again with that loss.
C26_LossRoundTrip ==
    save_pc = "done" =>
       LET l == saved_model.loss_function
           config == LossGetConfig(l)
       IN  /\ config.raised = "none"
           /\ LossFromConfig(config).raised = "none"
           /\ LossFromConfig(config).loss = l
           /\ loaded.status = "ok"
           /\ loaded.model.loss_function = l

-----------------------------------------------------------------------------
(* Save and load of every variant.  saved_model is a model of any of the   *)
(* four classes; document holds the files that save writes: the file       *)
(* itself and, for a GAN, filename + '_generator' and                      *)
(* filename + '_discriminator'.                                            *)

\* JSON null / Python None where a document or a sub-model is expected.
Null == [null |-> TRUE]

\* type(m).__name__; the Sequential models are the records of CompiledModels.
ClassOf(m) == Get(m, "class", "Sequential")

\* The losses the composite models are compiled with.
PersistLosses ==
    {l \in LossInstances :
        /\ l.name \in {"MeanSquaredError", "HuberLoss",
                       "SparseCategoricalCrossentropy", "SequenceCrossEntropy"}
        /\ l.delta \in {0, 1}}

\* Decoder layer lists: add_decoder_layer has no first-layer rule.
DecoderLayerLists ==
    {<<MkLayer("Dense", "none", FALSE)>>,
     <<MkLayer("Dense", "name", FALSE), MkLayer("Activation", "function", FALSE)>>}

\* Autoencoder.__init__ followed by Autoencoder.compile.
AutoencoderModels ==
    [class : {"Autoencoder"},
     encoder_layers : LayerLists, decoder_layers : DecoderLayerLists,
     gradient_clip_threshold : {5}, enable_padding : {FALSE},
     padding_size : {32}, random_state : 1..MaxSeed,
     skip_connections : BOOLEAN, l1_reg : {0}, l2_reg : {0, 1},
     variational : BOOLEAN,
     encoder_loss : PersistLosses, decoder_loss : {[name |-> "MeanSquaredError", delta |-> 0]},
     encoder_optimizer : {o \in OptimizerInstances : o.learning_rate = 1},
     decoder_optimizer : {o \in OptimizerInstances : o.name = "SGD"}]

\* Transformer.__init__: the constructor arguments that get_config returns.
TransformerModels ==
    [class : {"Transformer"},
     src_vocab_size : {4}, tgt_vocab_size : {4, 6}, d_model : {8},
     n_heads : {2}, n_encoder_layers : {1}, n_decoder_layers : {1, 2},
     d_ff : {16}, dropout_rate : {0}, max_sequence_length : {4},
     gradient_clip_threshold : {5}, enable_padding : BOOLEAN,
     padding_size : {32}, random_state : 1..MaxSeed]

\* A Sequential sub-model of a GAN as GAN.compile leaves it: its loss and
\* optimizer are those of the GAN.
SubModel(ls, loss, opt, seed) ==
    [layers |-> ls, loss_function |-> loss, optimizer |-> opt,
     gradient_clip_threshold |-> 5, enable_padding |-> FALSE,
     padding_size |-> 32, random_state |-> seed]

\* GAN.__init__ followed by GAN.compile.
GANModels ==
    {[class |-> "GAN", latent_dim |-> d, gradient_clip_threshold |-> 5,
      enable_padding |-> FALSE, padding_size |-> 32, random_state |-> seed,
      generator |-> SubModel(g, loss, go, seed),
      discriminator |-> SubModel(dl, loss, dopt, seed),
      generator_optimizer |-> go, discriminator_optimizer |-> dopt,
      generator_loss |-> loss, discriminator_loss |-> loss] :
        d \in {2, 100}, seed \in 1..MaxSeed, g \in LayerLists, dl \in LayerLists,
        loss \in PersistLosses,
        go \in {o \in OptimizerInstances : o.learning_rate = 1},
        dopt \in {o \in OptimizerInstances : o.name = "Adam"}}

PersistModels ==
    CompiledModels \cup AutoencoderModels \cup TransformerModels \cup GANModels

\* [layer.get_config() for layer in ...] and
\* [Layer.from_config(layer_config) for layer_config in ...]
GetConfigs(ls) == [i \in 1..Len(ls) |-> LayerGetConfig(ls[i])]

FromConfigs(configs) == [i \in 1..Len(configs) |-> LayerFromConfig(configs[i])]

\* The files after a save: filename, filename + '_generator',
\* filename + '_discriminator'.  A save that raised is recorded in `file`.
Files(main, gen, disc) ==
    [file |-> main, file_generator |-> gen, file_discriminator |-> disc]

SaveRaised(e) == Files([type |-> "raised", error |-> e], NoDocument, NoDocument)

\* Autoencoder.save: the keys of model_state; variational is not among them.
AutoencoderSave(m) ==
    LET el == LossGetConfig(m.encoder_loss)
        dl == LossGetConfig(m.decoder_loss)
    IN  IF el.raised # "none" THEN SaveRaised(el.raised)
        ELSE IF dl.raised # "none" THEN SaveRaised(dl.raised)
        ELSE Files([type |-> "Autoencoder",
                    encoder_layers |-> GetConfigs(m.encoder_layers),
                    decoder_layers |-> GetConfigs(m.decoder_layers),
                    gradient_clip_threshold |-> m.gradient_clip_threshold,
                    enable_padding |-> m.enable_padding,
                    padding_size |-> m.padding_size,
                    random_state |-> m.random_state,
                    skip_connections |-> m.skip_connections,
                    l1_reg |-> m.l1_reg,
                    l2_reg |-> m.l2_reg,
                    encoder_loss |-> el,
                    decoder_loss |-> dl,
                    encoder_optimizer |-> OptimizerGetConfig(m.encoder_optimizer),
                    decoder_optimizer |-> OptimizerGetConfig(m.decoder_optimizer)],
                   NoDocument, NoDocument)

\* Transformer.get_config
TransformerGetConfig(m) ==
    [src_vocab_size |-> m.src_vocab_size, tgt_vocab_size |-> m.tgt_vocab_size,
     d_model |-> m.d_model, n_heads |-> m.n_heads,
     n_encoder_layers |-> m.n_encoder_layers,
     n_decoder_layers |-> m.n_decoder_layers, d_ff |-> m.d_ff,
     dropout_rate |-> m.dropout_rate,
     max_sequence_length |-> m.max_sequence_length,
     gradient_clip_threshold |-> m.gradient_clip_threshold,
     enable_padding |-> m.enable_padding, padding_size |-> m.padding_size,
     random_state |-> m.random_state]

\* Transformer.save: config = self.get_config(); config['type'] = 'Transformer'
TransformerSave(m) ==
    Files(("type" :> "Transformer") @@ TransformerGetConfig(m),
          NoDocument, NoDocument)

\* GAN.save: the sub-models are saved to their own files by Sequential.save,
\* whose return value (None) is what the 'generator' and 'discriminator'
\* keys of the document hold.
GANSave(m) ==
    LET gen == SaveDocument(m.generator)
        disc == SaveDocument(m.discriminator)
        gl == LossGetConfig(m.generator_loss)
        dl == LossGetConfig(m.discriminator_loss)
    IN  IF gen.type = "raised" THEN SaveRaised(gen.error)
        ELSE IF disc.type = "raised" THEN SaveRaised(disc.error)
        ELSE IF gl.raised # "none" THEN SaveRaised(gl.raised)
        ELSE IF dl.raised # "none" THEN SaveRaised(dl.raised)
        ELSE Files([type |-> "GAN",
                    latent_dim |-> m.latent_dim,
                    gradient_clip_threshold |-> m.gradient_clip_threshold,
                    enable_padding |-> m.enable_padding,
                    padding_size |-> m.padding_size,
                    random_state |-> m.random_state,
                    generator |-> Null,
                    discriminator |-> Null,
                    generator_optimizer |-> OptimizerGetConfig(m.generator_optimizer),
                    discriminator_optimizer |-> OptimizerGetConfig(m.discriminator_optimizer),
                    generator_loss |-> gl,
                    discriminator_loss |-> dl],
                   gen, disc)

\* m.save(filename), by the class of m.
SaveFiles(m) ==
    CASE ClassOf(m) = "Sequential" ->
           LET doc == SaveDocument(m)
           IN  IF doc.type = "raised" THEN SaveRaised(doc.error)
               ELSE Files(doc, NoDocument, NoDocument)
      [] ClassOf(m) = "Autoencoder" -> AutoencoderSave(m)
      [] ClassOf(m) = "Transformer" -> TransformerSave(m)
      [] ClassOf(m) = "GAN" -> GANSave(m)

\* `if key in model_state: ... = LossFunction.from_config(model_state[key])`,
\* and the same through model_state.get(key) of GAN.load: None when the key
\* is absent or null.
LossAt(doc, key) ==
    IF key \in DOMAIN doc /\ doc[key] # Null
    THEN LossFromConfig(doc[key])
    ELSE [raised |-> "none", loss |-> NoModel.loss_function]

OptimizerAt(doc, key) ==
    IF key \in DOMAIN doc /\ doc[key] # Null
    THEN OptimizerFromConfig(doc[key])
    ELSE NoModel.optimizer

LoadRaised(e) == [status |-> e, model |-> NoModel]

\* Autoencoder.load: cls() with its defaults, the keys of the document that
\* are attributes set on it, the two layer lists, the losses and optimizers.
\* The 'type' key is never read.
AutoencoderLoad(doc, now) ==
    LET el == LossAt(doc, "encoder_loss")
        dl == LossAt(doc, "decoder_loss")
    IN  IF el.raised # "none" THEN LoadRaised(el.raised)
        ELSE IF dl.raised # "none" THEN LoadRaised(dl.raised)
        ELSE [status |-> "ok",
              model |-> [class |-> "Autoencoder",
                         encoder_layers |-> FromConfigs(Get(doc, "encoder_layers", <<>>)),
                         decoder_layers |-> FromConfigs(Get(doc, "decoder_layers", <<>>)),
                         gradient_clip_threshold |->
                             Get(doc, "gradient_clip_threshold", 5),
                         enable_padding |-> Get(doc, "enable_padding", FALSE),
                         padding_size |-> Get(doc, "padding_size", 32),
                         random_state |-> Get(doc, "random_state", now),
                         skip_connections |-> Get(doc, "skip_connections", FALSE),
                         l1_reg |-> Get(doc, "l1_reg", 0),
                         l2_reg |-> Get(doc, "l2_reg", 0),
                         variational |-> Get(doc, "variational", FALSE),
                         encoder_loss |-> el.loss,
                         decoder_loss |-> dl.loss,
                         encoder_optimizer |-> OptimizerAt(doc, "encoder_optimizer"),
                         decoder_optimizer |-> OptimizerAt(doc, "decoder_optimizer")]]

\* The keys of Transformer.get_config, all of them parameters of __init__.
TransformerKeys ==
    {"src_vocab_size", "tgt_vocab_size", "d_model", "n_heads",
     "n_encoder_layers", "n_decoder_layers", "d_ff", "dropout_rate",
     "max_sequence_length", "gradient_clip_threshold", "enable_padding",
     "padding_size", "random_state"}

\* Transformer.load: config['type'] is read (KeyError when absent) and
\* compared; the other keys are the constructor's keyword arguments.
TransformerLoad(doc) ==
    IF "type" \notin DOMAIN doc THEN LoadRaised("KeyError")
    ELSE IF doc.type # "Transformer" THEN LoadRaised("ValueError")
    ELSE IF DOMAIN doc \ {"type"} # TransformerKeys
         THEN LoadRaised("TypeError")
    ELSE [status |-> "ok",
          model |-> ("class" :> "Transformer") @@ TransformerGetConfig(doc)]

\* Sequential.load(filename + suffix) inside GAN.load.
SubModelLoad(doc, now) ==
    IF doc = NoDocument THEN LoadRaised("FileNotFoundError")
    ELSE LoadDocument(doc, now)

\* GAN.load: the five constructor arguments are read by subscript (KeyError
\* when absent); a sub-model is loaded only when its key holds a truthy
\* value.  The 'type' key is never read.
GANLoad(files, now) ==
    LET doc == files.file
        gen == IF Get(doc, "generator", Null) # Null
               THEN SubModelLoad(files.file_generator, now)
               ELSE [status |-> "ok", model |-> Null]
        disc == IF Get(doc, "discriminator", Null) # Null
                THEN SubModelLoad(files.file_discriminator, now)
                ELSE [status |-> "ok", model |-> Null]
        gl == LossAt(doc, "generator_loss")
        dl == LossAt(doc, "discriminator_loss")
    IN  IF ~({"latent_dim", "gradient_clip_threshold", "enable_padding",
              "padding_size", "random_state"} \subseteq DOMAIN doc)
        THEN LoadRaised("KeyError")
        ELSE IF gen.status # "ok" THEN LoadRaised(gen.status)
        ELSE IF disc.status # "ok" THEN LoadRaised(disc.status)
        ELSE IF gl.raised # "none" THEN LoadRaised(gl.raised)
        ELSE IF dl.raised # "none" THEN LoadRaised(dl.raised)
        ELSE [status |-> "ok",
              model |-> [class |-> "GAN",
                         latent_dim |-> doc.latent_dim,
                         gradient_clip_threshold |-> doc.gradient_clip_threshold,
                         enable_padding |-> doc.enable_padding,
                         padding_size |-> doc.padding_size,
                         random_state |-> doc.random_state,
                         generator |-> gen.model,
                         discriminator |-> disc.model,
                         generator_optimizer |-> OptimizerAt(doc, "generator_optimizer"),
                         discriminator_optimizer |->
                             OptimizerAt(doc, "discriminator_optimizer"),
                         generator_loss |-> gl.loss,
                         discriminator_loss |-> dl.loss]]

\* class.load(filename), by the class it is called on.
LoadFiles(class, files, now) ==
    CASE class = "Sequential" -> LoadDocument(files.file, now)
      [] class = "Autoencoder" -> AutoencoderLoad(files.file, now)
      [] class = "Transformer" -> TransformerLoad(files.file)
      [] class = "GAN" -> GANLoad(files, now)

InitPersist ==
    /\ IdleAdd
    /\ IdleFit
    /\ saved_model \in PersistModels
    /\ document = Files(NoDocument, NoDocument, NoDocument)
    /\ loaded = NotLoaded
    /\ save_pc = "model"
    /\ IdleStep
    /\ IdlePredict
    /\ IdleGen
    /\ IdleInput
    /\ IdleForward
    /\ IdleMasks
    /\ IdleClip

\* m.save(filename)
SaveModel ==
    /\ save_pc = "model"
    /\ document' = SaveFiles(saved_model)
    /\ IF document'.file.type = "raised"
       THEN /\ save_pc' = "done"
            /\ loaded' = [by |-> "save"] @@ LoadRaised(document'.file.error)
       ELSE /\ save_pc' = "saved"
            /\ loaded' = loaded
    /\ UNCHANGED <<notSaveVars, saved_model>>

\* The file reaches load without its 'type' key: a malformed document.
DropTypeTag ==
    /\ save_pc = "saved"
    /\ "type" \in DOMAIN document.file
    /\ document' = [document EXCEPT
                      !.file = [k \in DOMAIN document.file \ {"type"} |->
                                   document.file[k]]]
    /\ UNCHANGED <<notSaveVars, saved_model, loaded, save_pc>>

\* class.load(filename), for any of the four classes.
LoadModel ==
    /\ save_pc = "saved"
    /\ \E class \in Variants, now \in 1..MaxSeed :
         loaded' = [by |-> class] @@ LoadFiles(class, document, now)
    /\ save_pc' = "done"
    /\ UNCHANGED <<notSaveVars, saved_model, document>>

NextPersist ==
    \/ SaveModel
    \/ DropTypeTag
    \/ LoadModel

SpecPersist == InitPersist /\ [][NextPersist]_vars

\* What of a model decides its forward pass: the constructor
\* hyperparameters and the layer lists of its sub-pipelines (None for a
\* sub-model that is absent).
SubPipeline(sub) == IF sub = Null THEN Null ELSE [layers |-> sub.layers]

ForwardConfig(m) ==
    CASE ClassOf(m) = "Autoencoder" ->
           [encoder_layers |-> m.encoder_layers,
            decoder_layers |-> m.decoder_layers,
            gradient_clip_threshold |-> m.gradient_clip_threshold,
            enable_padding |-> m.enable_padding,
            padding_size |-> m.padding_size,
            random_state |-> m.random_state,
            skip_connections |-> m.skip_connections,
            l1_reg |-> m.l1_reg, l2_reg |-> m.l2_reg,
            variational |-> m.variational]
      [] ClassOf(m) = "GAN" ->
           [latent_dim |-> m.latent_dim,
            gradient_clip_threshold |-> m.gradient_clip_threshold,
            enable_padding |-> m.enable_padding,
            padding_size |-> m.padding_size,
            random_state |-> m.random_state,
            generator |-> SubPipeline(m.generator),
            discriminator |-> SubPipeline(m.discriminator)]
      [] OTHER -> m

\* The document is as save wrote it and load is called on the class of the
\* saved model (or save itself raised).
RoundTripDone ==
    /\ save_pc = "done"
    /\ "type" \in DOMAIN document.file
    /\ loaded.by \in {ClassOf(saved_model), "save"}

\* C11: for a compiled Autoencoder or GAN m, load(save(m)) returns a model
\* with every constructor hyperparameter of m (skip_connections and
\* variational included) and every sub-pipeline of m (encoder and decoder
\* layer lists, generator and discriminator) with the same layer
\* configurations.
C11_CompositeRoundTrip ==
    (RoundTripDone /\ ClassOf(saved_model) \in {"Autoencoder", "GAN"}) =>
       /\ loaded.status = "ok"
       /\ ForwardConfig(loaded.model) = ForwardConfig(saved_model)

\* C12: load of every variant raises and returns no model when the document
\* has no 'type' key or its 'type' names another variant than the class
\* load is called on.
C12_LoadRejectsForeignType ==
    (/\ save_pc = "done"
     /\ loaded.by \in Variants
     /\ \/ "type" \notin DOMAIN document.file
        \/ document.file.type # loaded.by) =>
       /\ loaded.status # "ok"
       /\ loaded.model = NoModel

-----------------------------------------------------------------------------
(* One training step: train_on_batch of Sequential, Autoencoder and GAN,   *)
(* as the layer.backward_pass and optimizer.update calls it makes.         *)

MaxTrainCalls == 2    \* train_on_batch is called at most this many times

\* The layer lists that are trained.
StepLayer(t) == MkLayer(t, "none", FALSE)

\* An Activation layer: type(layer.activation_function).__name__ is fn.
StepActivation(fn) ==
    [type |-> "Activation", activation |-> "function", return_sequences |-> FALSE,
     activation_function |-> fn]

StepActivations == {"Softmax", "Sigmoid", "ReLU"}

StepLayerLists ==
    {<<StepLayer("Input"), StepLayer("Dense"), StepActivation(fn)>> :
        fn \in StepActivations}
    \cup {<<StepLayer("Input"), StepLayer("LSTM"), StepLayer("Dense")>>,
          <<StepLayer("Input"), StepLayer("GRU"), StepLayer("Dense")>>}

StepDecoderLists ==
    {<<StepLayer("Dense"), StepActivation(fn)>> : fn \in StepActivations}
    \cup {<<StepLayer("LSTM"), StepLayer("Dense")>>,
          <<StepLayer("GRU")>>}

\* The class of self.loss_function (Sequential) or self.decoder_loss.
StepLosses ==
    {"CategoricalCrossentropy", "BinaryCrossentropy",
     "SparseCategoricalCrossentropy", "MeanSquaredError"}

\* The models: a Sequential, an Autoencoder (whose two optimizers are one
\* object when compile is given a single Optimizer instance) and a GAN.
StepNets ==
    {[class |-> "Sequential", layers |-> ls, loss_function |-> l] :
        ls \in StepLayerLists, l \in StepLosses}
    \cup {[class |-> "Autoencoder", encoder_layers |-> e, decoder_layers |-> d,
           shared_optimizer |-> sh, decoder_loss |-> l] :
             e \in StepLayerLists, d \in StepDecoderLists, sh \in BOOLEAN,
             l \in StepLosses}
    \cup {[class |-> "GAN", generator |-> g, discriminator |-> d] :
             g \in StepLayerLists, d \in StepLayerLists}

\* hasattr(layer, 'weights') and hasattr(layer, 'd_bias'), for the layers
\* that are neither LSTM nor GRU.
HasWeights(layer) == layer.type = "Dense"

HasBias(layer) == layer.type = "Dense"

\* The record of one layer.backward_pass(error) call.
BackwardCall(ph, pipe, layer_idx) ==
    [op |-> "backward", phase |-> ph, pipeline |-> pipe, index |-> layer_idx]

\* The record of the fused gradient taking the place of the last layer's
\* backward_pass: error = self.predictions - self.y_true and its variants.
FusedCall(ph, pipe, layer_idx) ==
    [op |-> "fused", phase |-> ph, pipeline |-> pipe, index |-> layer_idx]

\* The pairings of a last Activation layer and the loss that
\* Sequential.backward_pass tests for.
SequentialFused(layer, loss) ==
    \/ layer.activation_function = "Softmax" /\ loss = "CategoricalCrossentropy"
    \/ layer.activation_function = "Sigmoid" /\ loss = "BinaryCrossentropy"
    \/ loss = "SparseCategoricalCrossentropy"

\* The pairings Autoencoder.backward_pass tests for.
AutoencoderFused(layer, loss) ==
    \/ layer.activation_function = "Softmax" /\ loss = "CategoricalCrossentropy"
    \/ layer.activation_function = "Sigmoid" /\ loss = "BinaryCrossentropy"

\* What an iteration of backward_pass does with the error before the
\* updates: on a last Activation layer the fused gradient when the pairing
\* is one of those tested for and nothing otherwise; on every other layer
\* clip_gradients and the layer's backward_pass.
ErrorStep(ph, pipe, layer, layer_idx, i, fused) ==
    IF i = 0 /\ layer.type = "Activation"
    THEN (IF fused THEN <<FusedCall(ph, pipe, layer_idx)>> ELSE <<>>)
    ELSE <<BackwardCall(ph, pipe, layer_idx)>>

\* The record of one optimizer.update(layer_idx, weights, d_weights, bias,
\* d_bias) call: the optimizer object, the index, the parameter tensors
\* (named by the weight tensor) and the gradient handed over.
UpdateCall(ph, opt, pipe, layer_idx, w, dw) ==
    [op |-> "update", phase |-> ph, optimizer |-> opt, pipeline |-> pipe,
     index |-> layer_idx,
     param |-> [pipeline |-> pipe, layer |-> layer_idx, name |-> w],
     grad |-> dw]

\* The optimizer.update calls of one iteration of Sequential.backward_pass.
\* For an LSTM the gradients of the first call are the ones the loop over
\* the gradient pairs leaves behind, those of the last pair.
SequentialUpdates(ph, opt, pipe, layer, layer_idx) ==
    CASE layer.type = "LSTM" ->
           <<UpdateCall(ph, opt, pipe, layer_idx, "Wf", "dWo"),
             UpdateCall(ph, opt, pipe, layer_idx, "Wi", "dWi"),
             UpdateCall(ph, opt, pipe, layer_idx, "Wc", "dWc"),
             UpdateCall(ph, opt, pipe, layer_idx, "Wo", "dWo")>>
      [] layer.type = "GRU" ->
           <<UpdateCall(ph, opt, pipe, layer_idx, "Wz", "dWz"),
             UpdateCall(ph, opt, pipe, layer_idx, "Wr", "dWr"),
             UpdateCall(ph, opt, pipe, layer_idx, "Wh", "dWh")>>
      [] OTHER ->
           IF HasWeights(layer)
           THEN <<UpdateCall(ph, opt, pipe, layer_idx, "weights", "d_weights")>>
           ELSE <<>>

\* Autoencoder._update_rnn_weights and _update_layer_weights: for an LSTM
\* every one of the four calls is handed cell.Wf and cell.bf.
AutoencoderUpdates(ph, opt, pipe, layer, layer_idx) ==
    CASE layer.type = "LSTM" ->
           <<UpdateCall(ph, opt, pipe, layer_idx, "Wf", "dWf"),
             UpdateCall(ph, opt, pipe, layer_idx, "Wf", "dWi"),
             UpdateCall(ph, opt, pipe, layer_idx, "Wf", "dWc"),
             UpdateCall(ph, opt, pipe, layer_idx, "Wf", "dWo")>>
      [] layer.type = "GRU" ->
           <<UpdateCall(ph, opt, pipe, layer_idx, "Wz", "dWz"),
             UpdateCall(ph, opt, pipe, layer_idx, "Wr", "dWr"),
             UpdateCall(ph, opt, pipe, layer_idx, "Wh", "dWh")>>
      [] OTHER ->
           IF HasWeights(layer)
           THEN <<UpdateCall(ph, opt, pipe, layer_idx, "weights", "d_weights")>>
           ELSE <<>>

\* self.encoder_optimizer / self.decoder_optimizer, as objects.
OptimizerOf(m, pipe) ==
    IF m.shared_optimizer THEN "optimizer" ELSE pipe \o "_optimizer"

\* The backward passes of one train_on_batch, in order.
Phases(class) ==
    CASE class = "Sequential" -> <<"backward">>
      [] class = "Autoencoder" -> <<"decoder", "encoder">>
      [] class = "GAN" -> <<"d_real", "d_fake", "g_disc", "g_gen">>

\* The phase after ph, "call" (train_on_batch returns) after the last.
PhaseAfter(class, ph) ==
    LET ps == Phases(class)
        k == CHOOSE n \in 1..Len(ps) : ps[n] = ph
    IN  IF k < Len(ps) THEN ps[k + 1] ELSE "call"

InitStep ==
    /\ IdleAdd
    /\ IdleFit
    /\ IdleSave
    /\ net \in StepNets
    /\ phase = "call"
    /\ rev_i = 0
    /\ step_log = <<>>
    /\ batches = 0
    /\ IdlePredict
    /\ IdleGen
    /\ IdleInput
    /\ IdleForward
    /\ IdleMasks
    /\ IdleClip

\* train_on_batch up to its first backward pass: the forward pass, the loss
\* and its derivative.
TrainOnBatch ==
    /\ phase = "call"
    /\ batches < MaxTrainCalls
    /\ phase' = Phases(net.class)[1]
    /\ rev_i' = 0
    /\ UNCHANGED <<notStepVars, net, step_log, batches>>

\* The loop variable after an iteration over ls, and the phase once the
\* loop is over.
Advance(ls) ==
    IF rev_i + 1 < Len(ls)
    THEN /\ rev_i' = rev_i + 1
         /\ phase' = phase
         /\ batches' = batches
    ELSE /\ rev_i' = 0
         /\ phase' = PhaseAfter(net.class, phase)
         /\ batches' = IF phase' = "call" THEN batches + 1 ELSE batches

\* One iteration of the loop of Sequential.backward_pass (gan=False).
BackwardLayer ==
    /\ phase = "backward"
    /\ LET ls == net.layers
           layer == ls[Len(ls) - rev_i]
           layer_idx == Len(ls) - 1 - rev_i
       IN  /\ step_log' = step_log
                \o ErrorStep(phase, "layers", layer, layer_idx, rev_i,
                             layer.type = "Activation"
                                /\ SequentialFused(layer, net.loss_function))
                \o SequentialUpdates(phase, "optimizer", "layers", layer, layer_idx)
           /\ Advance(ls)
    /\ UNCHANGED <<notStepVars, net>>

\* One iteration of the decoder loop of Autoencoder.backward_pass.
DecoderLayer ==
    /\ phase = "decoder"
    /\ LET ls == net.decoder_layers
           layer == ls[Len(ls) - rev_i]
           layer_idx == Len(ls) - 1 - rev_i
       IN  /\ step_log' = step_log
                \o ErrorStep(phase, "decoder", layer, layer_idx, rev_i,
                             layer.type = "Activation"
                                /\ AutoencoderFused(layer, net.decoder_loss))
                \o AutoencoderUpdates(phase, OptimizerOf(net, "decoder"),
                                      "decoder", layer, layer_idx)
           /\ Advance(ls)
    /\ UNCHANGED <<notStepVars, net>>

\* One iteration of the encoder loop of Autoencoder.backward_pass.
EncoderLayer ==
    /\ phase = "encoder"
    /\ LET ls == net.encoder_layers
           layer == ls[Len(ls) - rev_i]
           layer_idx == Len(ls) - 1 - rev_i
       IN  /\ step_log' = step_log
                \o <<BackwardCall(phase, "encoder", layer_idx)>>
                \o AutoencoderUpdates(phase, OptimizerOf(net, "encoder"),
                                      "encoder", layer, layer_idx)
           /\ Advance(ls)
    /\ UNCHANGED <<notStepVars, net>>

\* One iteration of the loop of Sequential.backward_pass(error, gan=True),
\* as GAN.train_on_batch calls it: on the discriminator for the real batch,
\* for the generated batch and for the generator's error, then on the
\* generator.
GanBackwardLayer ==
    /\ phase \in {"d_real", "d_fake", "g_disc", "g_gen"}
    /\ LET pipe == IF phase = "g_gen" THEN "generator" ELSE "discriminator"
           ls == net[pipe]
           layer_idx == Len(ls) - 1 - rev_i
       IN  /\ step_log' = Append(step_log, BackwardCall(phase, pipe, layer_idx))
           /\ Advance(ls)
    /\ UNCHANGED <<notStepVars, net>>

NextStep ==
    \/ TrainOnBatch
    \/ BackwardLayer
    \/ DecoderLayer
    \/ EncoderLayer
    \/ GanBackwardLayer

SpecStep == InitStep /\ [][NextStep]_vars

\* The optimizer.update calls made so far.
UpdateCalls == {k \in 1..Len(step_log) : step_log[k].op = "update"}

\* C13: in a training run of a Sequential or Autoencoder model all
\* optimizer.update calls with the same index on the same optimizer carry
\* the same parameter tensor; the gate pairs of one LSTM or GRU layer are
\* never updated under one index.
C13_IndexNamesOneTensor ==
    net.class \in {"Sequential", "Autoencoder"} =>
       \A a, b \in UpdateCalls :
          (/\ step_log[a].optimizer = step_log[b].optimizer
           /\ step_log[a].index = step_log[b].index) =>
             step_log[a].param = step_log[b].param

\* A train_on_batch call of a GAN has returned.
GanStepDone == net.class = "GAN" /\ phase = "call" /\ batches >= 1

\* C14: one GAN.train_on_batch makes, in this order, an optimizer update of
\* the discriminator from the real batch, one from the generated batch and
\* one of the generator driven by the gradient that went back through the
\* discriminator; in the third step no discriminator parameter is updated.
C14_GanStepOrder ==
    GanStepDone =>
       /\ \E a, b, c \in UpdateCalls :
             /\ a < b /\ b < c
             /\ step_log[a].phase = "d_real" /\ step_log[a].pipeline = "discriminator"
             /\ step_log[b].phase = "d_fake" /\ step_log[b].pipeline = "discriminator"
             /\ step_log[c].phase \in {"g_disc", "g_gen"}
             /\ step_log[c].pipeline = "generator"
             /\ \E k \in 1..(c - 1) :
                   step_log[k] = BackwardCall("g_disc", "discriminator", 0)
       /\ \A k \in UpdateCalls :
             step_log[k].phase \in {"g_disc", "g_gen"} =>
                step_log[k].pipeline # "discriminator"

\* The first train_on_batch call of a Sequential model has returned: the log
\* is that of one backward pass.
SequentialPassDone == net.class = "Sequential" /\ phase = "call" /\ batches = 1

IsVisit(r) == r.op \in {"backward", "fused"}

\* The last layer is an Activation in one of the pairings the fused gradient
\* is known for.
RecognizedPairing ==
    LET top == net.layers[Len(net.layers)]
    IN  /\ top.type = "Activation"
        /\ \/ top.activation_function = "Softmax"
                 /\ net.loss_function = "CategoricalCrossentropy"
           \/ top.activation_function = "Sigmoid"
                 /\ net.loss_function = "BinaryCrossentropy"
           \/ net.loss_function = "SparseCategoricalCrossentropy"

\* C21: Sequential.backward_pass visits the layers from last to first and
\* calls each layer's backward_pass exactly once, except that the fused
\* gradient takes the place of the backward_pass of a last Activation layer
\* in a recognized pairing; a last Activation in any other pairing is treated
\* like every other layer; a parameter-owning non-recurrent layer at position
\* p issues its update with index p right after its own backward_pass.
C21_BackwardVisitsEveryLayer ==
    SequentialPassDone =>
       LET n == Len(net.layers)
           visits == SelectSeq(step_log, IsVisit)
       IN  /\ Len(visits) = n
           /\ \A k \in 1..n :
                 /\ visits[k].index = n - k
                 /\ visits[k].op = IF k = 1 /\ RecognizedPairing
                                   THEN "fused" ELSE "backward"
           /\ \A q \in 1..n :
                 (HasWeights(net.layers[q]) /\ net.layers[q].type \notin {"LSTM", "GRU"}) =>
                    \E k \in 2..Len(step_log) :
                       /\ step_log[k].op = "update" /\ step_log[k].index = q - 1
                       /\ step_log[k - 1] = BackwardCall("backward", "layers", q - 1)
                       /\ \A m \in UpdateCalls : step_log[m].index = q - 1 => m = k

\* The first train_on_batch call of a Sequential or Autoencoder model has
\* returned.
PassDone ==
    net.class \in {"Sequential", "Autoencoder"} /\ phase = "call" /\ batches = 1

\* The layer lists of the model, by the name the log gives them.
StepPipelines ==
    IF net.class = "Sequential" THEN {"layers"} ELSE {"decoder", "encoder"}

PipelineLayers(pipe) ==
    CASE pipe = "layers" -> net.layers
      [] pipe = "decoder" -> net.decoder_layers
      [] pipe = "encoder" -> net.encoder_layers

Gates(layer) == IF layer.type = "LSTM" THEN {"f", "i", "c", "o"} ELSE {"z", "r", "h"}

\* The update calls issued for the layer at position q of a layer list.
UpdatesOf(pipe, q) ==
    {k \in UpdateCalls : step_log[k].pipeline = pipe /\ step_log[k].index = q - 1}

\* C22: one backward pass of Sequential or Autoencoder issues, for an LSTM
\* layer, exactly four optimizer update calls, one per gate g in {f, i, c, o},
\* each with the gate's own weight W_g and the gradient dW_g of that same
\* gate; for a GRU layer exactly three, one per gate in {z, r, h}.
C22_GateUpdates ==
    PassDone =>
       \A pipe \in StepPipelines :
          \A q \in DOMAIN PipelineLayers(pipe) :
             LET layer == PipelineLayers(pipe)[q]
             IN  layer.type \in {"LSTM", "GRU"} =>
                    /\ Cardinality(UpdatesOf(pipe, q)) = Cardinality(Gates(layer))
                    /\ \A g \in Gates(layer) :
                          \E k \in UpdatesOf(pipe, q) :
                             /\ step_log[k].param.name = "W" \o g
                             /\ step_log[k].grad = "dW" \o g

\* C23: in an Autoencoder compiled with a single optimizer no optimizer
\* object receives update calls with the same index for an encoder parameter
\* tensor and for a decoder parameter tensor.
C23_EncoderDecoderSlots ==
    (net.class = "Autoencoder" /\ net.shared_optimizer) =>
       \A a, b \in UpdateCalls :
          (/\ step_log[a].pipeline = "encoder"
           /\ step_log[b].pipeline = "decoder"
           /\ step_log[a].optimizer = step_log[b].optimizer) =>
             step_log[a].index # step_log[b].index

-----------------------------------------------------------------------------
(* Beam search: Transformer.predict.  The decoder is a table of costs: the *)
(* cost of a token is -log_probs[token], so the most probable token has    *)
(* the lowest cost.  A score is a fraction [num, den] with den > 0.        *)

SOS_IDX == 2

EOS_IDX == 3

MaxLength == 4        \* predict is called with max_length in 1..MaxLength

\* beam_size and min_length of the predict calls; alpha is 0 or 1.
BeamSizes == {1, 2}

MinLengths == {1, 2, 3}

\* The next-token distributions of the decoder, as the cost of the tokens
\* 0 (PAD), 1 (UNK), 2 (SOS), 3 (EOS) in this order: a regular token first;
\* the end token first; the start token first with the end token second;
\* the start token first with a regular token second.
Distributions ==
    {<<1, 2, 4, 3>>, <<2, 3, 4, 1>>, <<3, 4, 1, 2>>, <<4, 2, 1, 3>>}

\* self.tgt_vocab_size and the tokens 0 .. tgt_vocab_size - 1.
VocabSize(dist) == Len(dist)

Tokens(dist) == 0..(Len(dist) - 1)

Cost(dist, token) == dist[token + 1]

\* Faulty variant of TopIndices: every token, not the top_k.
TopIndicesAll(dist, beam_size) == Tokens(dist)

\* np.argpartition(log_probs, -top_k)[-top_k:] with
\* top_k = min(beam_size * 2, self.tgt_vocab_size): the top_k most probable
\* tokens.
TopIndices(dist, beam_size) ==
    LET top_k == Min(beam_size * 2, VocabSize(dist))
    IN  {t \in Tokens(dist) :
           Cardinality({u \in Tokens(dist) : Cost(dist, u) < Cost(dist, t)}) < top_k}

\* A beam entry (seq, score).
Entry(seq, num, den) == [seq |-> seq, num |-> num, den |-> den]

ScoreLess(a, b) == a.num * b.den < b.num * a.den

EndsWithEOS(seq) == seq[Len(seq)] = EOS_IDX

\* Faulty variant of ValidTokens: the end token is allowed at every length.
ValidTokensNoMinLength(seq, dist, a) ==
    {t \in TopIndices(dist, a.beam_size) : t # SOS_IDX}

\* top_indices[valid_tokens]: the start token is never valid, the end token
\* is not while len(seq[0]) < min_length.
ValidTokens(seq, dist, a) ==
    {t \in TopIndices(dist, a.beam_size) :
        /\ t # SOS_IDX
        /\ Len(seq) < a.min_length => t # EOS_IDX}

\* The candidate for one valid token:
\* candidate_score = (score - log_probs[idx]) / length_penalty with
\* length_penalty = ((5 + len(seq[0]) + 1) / 6) ** alpha, alpha 0 or 1.
Extend(entry, dist, token, a) ==
    LET sum == entry.num + Cost(dist, token) * entry.den
    IN  IF a.alpha = 0
        THEN Entry(Append(entry.seq, token), sum, entry.den)
        ELSE Entry(Append(entry.seq, token), 6 * sum,
                   entry.den * (5 + Len(entry.seq) + 1))

\* What one sequence of the beam appends to all_candidates: itself when it
\* ends with the end token and is long enough, nothing when it ends with
\* the end token and is too short, else one candidate per valid token (the
\* order np.argpartition gives them in is not specified; they are listed by
\* token here, and their scores differ, so the sort below does not depend
\* on it).
Candidates(entry, dist, a) ==
    IF EndsWithEOS(entry.seq)
    THEN IF Len(entry.seq) >= a.min_length THEN <<entry>> ELSE <<>>
    ELSE LET valid == ValidTokens(entry.seq, dist, a)
             tokens == SelectSeq([k \in 1..VocabSize(dist) |-> k - 1],
                                 LAMBDA t : t \in valid)
         IN  [k \in 1..Len(tokens) |-> Extend(entry, dist, tokens[k], a)]

\* The loop over beam_sequences[-1], from its k-th sequence on.
RECURSIVE CandidatesFrom(_, _, _, _)
CandidatesFrom(beam, dists, a, k) ==
    IF k > Len(beam) THEN <<>>
    ELSE Candidates(beam[k], dists[k], a) \o CandidatesFrom(beam, dists, a, k + 1)

\* sorted(all_candidates, key=lambda x: x[1]): a stable sort by score.
Sorted(cands) ==
    LET Position(k) ==
            1 + Cardinality({m \in 1..Len(cands) :
                               \/ ScoreLess(cands[m], cands[k])
                               \/ ~ScoreLess(cands[k], cands[m]) /\ m < k})
    IN  [r \in 1..Len(cands) |->
            cands[CHOOSE k \in 1..Len(cands) : Position(k) = r]]

\* min(beam_sequences[-1], key=lambda x: x[1])[0]: the first sequence of
\* the lowest score.
BestSeq(beam) == Sorted(beam)[1].seq

\* best_seq[:, 1:-1] when it ends with the end token, else best_seq[:, 1:]
Strip(seq) ==
    IF EndsWithEOS(seq) THEN SubSeq(seq, 2, Len(seq) - 1) ELSE Tail(seq)

InitPredict ==
    /\ IdleAdd
    /\ IdleFit
    /\ IdleSave
    /\ IdleStep
    /\ predict_args \in [max_length : 1..MaxLength, beam_size : BeamSizes,
                         alpha : {0, 1}, min_length : MinLengths]
    /\ next_token \in [1..(predict_args.max_length - 1) -> Distributions]
    /\ beam_sequences = <<>>
    /\ all_candidates = <<>>
    /\ round_i = 0
    /\ predict_pc = "start"
    /\ stop_reason = "none"
    /\ returned = <<>>
    /\ IdleGen
    /\ IdleInput
    /\ IdleForward
    /\ IdleMasks
    /\ IdleClip

\* predict up to the loop: the first beam holds the start token alone, with
\* score 0; range(max_length - 1) may be empty.
BeginPredict ==
    /\ predict_pc = "start"
    /\ beam_sequences' = <<<<Entry(<<SOS_IDX>>, 0, 1)>>>>
    /\ IF predict_args.max_length - 1 > 0
       THEN /\ predict_pc' = "loop"
            /\ stop_reason' = stop_reason
       ELSE /\ predict_pc' = "return"
            /\ stop_reason' = "max_length"
    /\ UNCHANGED <<notPredictVars, predict_args, next_token, all_candidates,
                   round_i, returned>>

\* One iteration of `for i in range(max_length - 1)`: every sequence of the
\* last beam is expanded, the candidates are sorted and cut to beam_size,
\* and the loop ends when there is no candidate or every sequence of the new
\* beam ends with the end token.  The decoder's distribution for the first
\* sequence is next_token[i]; for the others it is any distribution.
ExpandRound ==
    /\ predict_pc = "loop"
    /\ LET beam == beam_sequences[Len(beam_sequences)]
       IN  \E others \in [2..Len(beam) -> Distributions] :
             LET dists == [k \in 1..Len(beam) |->
                             IF k = 1 THEN next_token[round_i + 1] ELSE others[k]]
                 cands == CandidatesFrom(beam, dists, predict_args, 1)
                 ordered == Sorted(cands)
                 new == Slice(ordered, 0, predict_args.beam_size)
             IN  /\ all_candidates' = cands
                 /\ IF cands = <<>>
                    THEN /\ beam_sequences' = beam_sequences
                         /\ round_i' = round_i
                         /\ predict_pc' = "return"
                         /\ stop_reason' = "no_candidates"
                    ELSE /\ beam_sequences' = Append(beam_sequences, new)
                         /\ IF \A k \in 1..Len(new) : EndsWithEOS(new[k].seq)
                            THEN /\ round_i' = round_i
                                 /\ predict_pc' = "return"
                                 /\ stop_reason' = "all_eos"
                            ELSE IF round_i + 1 < predict_args.max_length - 1
                            THEN /\ round_i' = round_i + 1
                                 /\ predict_pc' = "loop"
                                 /\ stop_reason' = stop_reason
                            ELSE /\ round_i' = round_i
                                 /\ predict_pc' = "return"
                                 /\ stop_reason' = "max_length"
    /\ UNCHANGED <<notPredictVars, predict_args, next_token, returned>>

\* The lines after the loop: the best sequence of the last beam, stripped.
ReturnBest ==
    /\ predict_pc = "return"
    /\ returned' = Strip(BestSeq(beam_sequences[Len(beam_sequences)]))
    /\ predict_pc' = "done"
    /\ UNCHANGED <<notPredictVars, predict_args, next_token, beam_sequences,
                   all_candidates, round_i, stop_reason>>

NextPredict ==
    \/ BeginPredict
    \/ ExpandRound
    \/ ReturnBest

SpecPredict == InitPredict /\ [][NextPredict]_vars

\* Greedy decoding on the same decoder: the arg-max token (the token of the
\* lowest cost) of the distribution of every step, until the end token or
\* max_length.
ArgMax(dist) ==
    CHOOSE t \in Tokens(dist) : \A u \in Tokens(dist) : Cost(dist, t) <= Cost(dist, u)

RECURSIVE GreedyFrom(_, _, _)
GreedyFrom(seq, decoder, max_length) ==
    IF Len(seq) >= max_length \/ EndsWithEOS(seq) THEN seq
    ELSE GreedyFrom(Append(seq, ArgMax(decoder[Len(seq)])), decoder, max_length)

Greedy(decoder, max_length) == Strip(GreedyFrom(<<SOS_IDX>>, decoder, max_length))

\* Greedy decoding under the rules of the beam: of the two most probable
\* tokens the most probable one that is not the start token and, while the
\* sequence is shorter than min_length, not the end token; decoding ends
\* when neither is admissible.
Admissible(seq, dist, min_length) ==
    {t \in Tokens(dist) :
        /\ Cardinality({u \in Tokens(dist) : Cost(dist, u) < Cost(dist, t)}) <= 1
        /\ t \notin {SOS_IDX} \cup (IF Len(seq) < min_length THEN {EOS_IDX} ELSE {})}

RECURSIVE ConstrainedFrom(_, _, _, _)
ConstrainedFrom(seq, decoder, max_length, min_length) ==
    IF Len(seq) >= max_length \/ EndsWithEOS(seq) THEN seq
    ELSE LET ok == Admissible(seq, decoder[Len(seq)], min_length)
         IN  IF ok = {} THEN seq
             ELSE ConstrainedFrom(
                     Append(seq, CHOOSE t \in ok : \A u \in ok :
                                    Cost(decoder[Len(seq)], t) <= Cost(decoder[Len(seq)], u)),
                     decoder, max_length, min_length)

ConstrainedGreedy(decoder, max_length, min_length) ==
    Strip(ConstrainedFrom(<<SOS_IDX>>, decoder, max_length, min_length))

SeenSequences ==
    {all_candidates[k].seq : k \in 1..Len(all_candidates)}
    \cup UNION {{beam_sequences[b][k].seq : k \in 1..Len(beam_sequences[b])} :
                  b \in 1..Len(beam_sequences)}

\* C16: at every step the beam holds at most beam_size sequences; every
\* candidate starts with the start token and has it nowhere else; the end
\* token is never appended to a sequence shorter than min_length (start
\* token included); a sequence that ends with the end token is never
\* extended.
C16_BeamInvariant ==
    /\ \A b \in 1..Len(beam_sequences) :
          Len(beam_sequences[b]) <= predict_args.beam_size
    /\ \A seq \in SeenSequences :
          /\ seq[1] = SOS_IDX
          /\ \A k \in 2..Len(seq) : seq[k] # SOS_IDX
          /\ \A k \in 2..Len(seq) :
                seq[k] = EOS_IDX => /\ k - 1 >= predict_args.min_length
                                    /\ k = Len(seq)

\* C16 witness: a full beam of two sequences after three rounds, one that
\* ended with the end token at the first length that allows it and was kept
\* as it is, although the end token was the most probable one from the first
\* round on.
C16_Witness ==
    /\ predict_args.beam_size = 2
    /\ predict_args.min_length = 2
    /\ Len(beam_sequences) = 4
    /\ Len(beam_sequences[4]) = 2
    /\ \A r \in 1..3 : ArgMax(next_token[r]) = EOS_IDX
    /\ \E k \in 1..2 : /\ EndsWithEOS(beam_sequences[4][k].seq)
                       /\ Len(beam_sequences[4][k].seq) = 3
    /\ \E k \in 1..2 : ~EndsWithEOS(beam_sequences[4][k].seq)

LastBeam == beam_sequences[Len(beam_sequences)]

AllEOS(beam) == \A k \in 1..Len(beam) : EndsWithEOS(beam[k].seq)

\* The expansion rounds run so far: one per beam appended, and the one that
\* found no candidate.
RoundsRun ==
    IF predict_pc = "start" THEN 0
    ELSE Len(beam_sequences) - 1 + (IF stop_reason = "no_candidates" THEN 1 ELSE 0)

\* predict is a recursion-free loop: it is over after at most
\* max_length - 1 rounds, and earlier exactly when the beam is all end
\* tokens or no candidate remains.
LoopEnds ==
    /\ RoundsRun <= predict_args.max_length - 1
    /\ (predict_pc \in {"return", "done"}
        /\ RoundsRun < predict_args.max_length - 1) =>
          (AllEOS(LastBeam) \/ all_candidates = <<>>)
    /\ (predict_pc = "loop" /\ RoundsRun > 0) =>
          (~AllEOS(LastBeam) /\ all_candidates # <<>>)

\* What was returned is the completed sequence of the lowest score of the
\* final beam, without its start and end tokens.
ReturnsBestCompleted ==
    \E k \in 1..Len(LastBeam) :
       /\ EndsWithEOS(LastBeam[k].seq)
       /\ \A m \in 1..Len(LastBeam) :
             EndsWithEOS(LastBeam[m].seq) => ~ScoreLess(LastBeam[m], LastBeam[k])
       /\ returned = SubSeq(LastBeam[k].seq, 2, Len(LastBeam[k].seq) - 1)

\* C17: predict is over after at most max_length - 1 expansion rounds,
\* earlier exactly when every sequence of the beam ends with the end token
\* (or no candidate remains); it returns the completed sequence of the
\* lowest score of the final beam without its start and end tokens, at most
\* max_length - 1 tokens.
C17_TerminatesWithBestCompleted ==
    /\ LoopEnds
    /\ predict_pc = "done" =>
          /\ ReturnsBestCompleted
          /\ Len(returned) <= predict_args.max_length - 1

-----------------------------------------------------------------------------
(* The optional arguments of fit.                                          *)

\* C18: Sequential.fit and Autoencoder.fit called with validation_data and
\* without batch_size run the validation pass after every epoch's training,
\* complete all requested epochs without raising and record one val_loss
\* per epoch.
C18_ValidationWithoutBatchSize ==
    (/\ variant \in {"Sequential", "Autoencoder"}
     /\ args.validation
     /\ args.batch_size = 0) =>
       /\ pc # "raised"
       /\ pc = "done" =>
             /\ Len(history["val_loss"]) = Cardinality(ExecutedEpochs)
             /\ \A e \in ExecutedEpochs :
                   \E k \in DOMAIN trace : /\ trace[k].ev = "evaluate"
                                           /\ trace[k].epoch = e

-----------------------------------------------------------------------------
(* The input checks of fit: Sequential.fit and Autoencoder.fit on models   *)
(* with and without recurrent and Embedding layers, on inputs of every     *)
(* rank in 1..MaxRank, with and without a plot that cannot be displayed.   *)

FitLayerLists ==
    {<<"Input", "Dense">>,
     <<"Input", "LSTM", "Dense">>,
     <<"Input", "GRU">>,
     <<"Input", "Bidirectional", "Dense">>,
     <<"Input", "Embedding", "Dense">>,
     <<"Input", "Embedding", "LSTM", "Dense">>,
     <<"Input", "Embedding", "Bidirectional">>}

InitRank ==
    /\ IdleAdd
    /\ IdleSave
    /\ variant \in {"Sequential", "Autoencoder"}
    /\ args \in FitArgs({1}, {MaxN}, {0, MaxBatch}, {0}, {FALSE},
                        {FALSE}, BOOLEAN, CallbackLists)
    /\ model_random_state = 1
    /\ EnterFit
    /\ IdleStep
    /\ IdlePredict
    /\ IdleGen
    /\ fit_layers \in FitLayerLists
    /\ x_rank \in 1..MaxRank
    /\ plot_blocked \in BOOLEAN
    /\ input_error = "none"
    /\ IdleForward
    /\ IdleMasks
    /\ IdleClip

SpecRank == InitRank /\ [][NextFit]_vars

HasRecurrent == \E i \in DOMAIN fit_layers : fit_layers[i] \in {"LSTM", "GRU", "Bidirectional"}

HasEmbedding == \E i \in DOMAIN fit_layers : fit_layers[i] = "Embedding"

\* The input's rank is not the one the model's layers need.
RankMismatch ==
    \/ HasRecurrent /\ ~ HasEmbedding /\ x_rank # 3
    \/ HasEmbedding /\ x_rank # 2

\* C20: Sequential.fit and Autoencoder.fit raise ValueError when the model
\* has an LSTM/GRU/Bidirectional layer and no Embedding and x_train is not
\* 3-dimensional, or has an Embedding and x_train is not 2-dimensional; when
\* fit has raised, no callback was called, no train_on_batch and no
\* validation pass ran, and the parameters are what they were at the call.
\* (The layers' random_state attribute is assigned before the check; it is a
\* seed, not a trained parameter.)
C20_RankErrorBeforeWork ==
    (variant \in {"Sequential", "Autoencoder"} /\ RankMismatch /\ pc # "start") =>
       /\ pc = "raised"
       /\ input_error \in {"ValueError: display", "ValueError: 3D", "ValueError: 2D"}
       /\ trace = <<>>
       /\ weights = 0
       /\ \A k \in DOMAIN history : history[k] = <<>>

\* An Autoencoder with an Embedding and an LSTM, fitted on a 3-D input: the
\* Embedding decides, the 2-D error is raised.
C20_Witness ==
    /\ variant = "Autoencoder"
    /\ HasRecurrent
    /\ HasEmbedding
    /\ x_rank = 3
    /\ pc = "raised"
    /\ input_error = "ValueError: 2D"

-----------------------------------------------------------------------------
(* Sampling: Sequential.generate_sequence.  A next-token distribution is   *)
(* the set of tokens it gives a positive probability (its support); a      *)
(* sample is any token of the support.  min_length None is written 0.      *)

GenMaxLength == 3     \* max_length is in 1..GenMaxLength; sequence_start has one column

\* The vocabulary and the batch sizes.
GenTokens == 0..2

GenBatches == {1, 2}

\* The rows predict returns: every distribution over the vocabulary, the
\* ones that put all their mass on one token included.
Supports == SUBSET GenTokens \ {{}}

\* Temperature scaling (temperature # 1.0): np.clip(probs, 1e-7, 1.0) gives
\* every token a positive probability.
Scaled(support, scaled) == IF scaled THEN GenTokens ELSE support

\* next_token_probs[:, stop_token] = 0 followed by the division by the sum:
\* the support without the stop token.  The empty set is the row of NaN that
\* 0 / 0 gives.
Masked(support, a, length) ==
    IF a.min_length # 0 /\ length < a.min_length /\ a.has_stop
    THEN support \ {a.stop_token}
    ELSE support

\* The tokens one row can sample: rng.integers(0, probs.shape[0]) when the
\* row has a NaN or sums to 0, else rng.choice(probs.shape[0], p=probs).
Samples(support, a, length) ==
    LET probs == Masked(Scaled(support, a.scaled), a, length)
    IN  IF probs = {} THEN GenTokens ELSE probs

InitGen ==
    /\ IdleAdd
    /\ IdleFit
    /\ IdleSave
    /\ IdleStep
    /\ IdlePredict
    /\ gen_args \in [batch : GenBatches, max_length : 1..GenMaxLength,
                     has_stop : BOOLEAN, stop_token : GenTokens,
                     min_length : 0..GenMaxLength, scaled : BOOLEAN]
    /\ current_sequence = <<>>
    /\ gen_pc = "start"
    /\ gen_log = <<>>
    /\ IdleInput
    /\ IdleForward
    /\ IdleMasks
    /\ IdleClip

\* current_sequence = sequence_start.copy(); range(max_length - 1) may be
\* empty.
BeginGenerate ==
    /\ gen_pc = "start"
    /\ \E start \in [1..gen_args.batch -> GenTokens] :
         current_sequence' = [row \in 1..gen_args.batch |-> <<start[row]>>]
    /\ gen_pc' = IF gen_args.max_length - 1 > 0 THEN "loop" ELSE "done"
    /\ UNCHANGED <<notGenVars, gen_args, gen_log>>

\* One iteration of the loop: predict, mask, sample one token per row, then
\* break or append.
GenerateStep ==
    /\ gen_pc = "loop"
    /\ LET length == Len(current_sequence[1])
       IN  \E rows \in [1..gen_args.batch -> Supports] :
           \E next_tokens \in [1..gen_args.batch -> GenTokens] :
             /\ \A row \in 1..gen_args.batch :
                   next_tokens[row] \in Samples(rows[row], gen_args, length)
             /\ IF /\ gen_args.has_stop
                   /\ (gen_args.min_length = 0 \/ length >= gen_args.min_length)
                   /\ \A row \in 1..gen_args.batch :
                         next_tokens[row] = gen_args.stop_token
                THEN /\ current_sequence' = current_sequence
                     /\ gen_pc' = "done"
                     /\ gen_log' = Append(gen_log, [length |-> length,
                                                    tokens |-> next_tokens,
                                                    break |-> TRUE])
                ELSE /\ current_sequence' =
                          [row \in 1..gen_args.batch |->
                              Append(current_sequence[row], next_tokens[row])]
                     /\ gen_pc' = IF length + 1 < gen_args.max_length
                                  THEN "loop" ELSE "done"
                     /\ gen_log' = Append(gen_log, [length |-> length,
                                                    tokens |-> next_tokens,
                                                    break |-> FALSE])
    /\ UNCHANGED <<notGenVars, gen_args>>

NextGen ==
    \/ BeginGenerate
    \/ GenerateStep

SpecGen == InitGen /\ [][NextGen]_vars

\* C19: with a stop_token and a min_length, the stop token is never appended
\* to a sequence of the batch while the length is below min_length, whatever
\* the distribution; and the loop ends before max_length only when the
\* length has reached min_length and every sequence sampled the stop token
\* in the same step.
C19_StopTokenRule ==
    (gen_args.has_stop /\ gen_args.min_length # 0) =>
       /\ \A k \in 1..Len(gen_log) :
             (~gen_log[k].break /\ gen_log[k].length < gen_args.min_length) =>
                \A row \in 1..gen_args.batch :
                   gen_log[k].tokens[row] # gen_args.stop_token
       /\ (gen_pc = "done" /\ Len(current_sequence[1]) < gen_args.max_length) =>
             /\ gen_log # <<>>
             /\ gen_log[Len(gen_log)].length >= gen_args.min_length
             /\ \A row \in 1..gen_args.batch :
                   gen_log[Len(gen_log)].tokens[row] = gen_args.stop_token

-----------------------------------------------------------------------------
(* The forward pass: Sequential.forward_pass and Autoencoder.forward_pass   *)
(* as train_on_batch, evaluate and predict call them, and the layer loops   *)
(* of Autoencoder.predict.  An array is its rows, its feature width and the *)
(* transformations that made it.                                            *)

MaxRows == 4          \* the input has 1..MaxRows rows
MaxPadding == 3       \* padding_size is in 1..MaxPadding

\* A layer: its type and, for Input and Dense, the feature width it declares.
FwdLayer(t, u) == [type |-> t, units |-> u]

FwdLayerLists ==
    {<<FwdLayer("Input", 4), FwdLayer("Dense", 4), FwdLayer("Dropout", 0),
       FwdLayer("Dense", 2)>>,
     <<FwdLayer("Input", 4), FwdLayer("LSTM", 0), FwdLayer("Dense", 2)>>,
     <<FwdLayer("Input", 4), FwdLayer("Bidirectional", 0), FwdLayer("GRU", 0)>>}

FwdEncoderLists ==
    {<<FwdLayer("Input", 4), FwdLayer("Dense", 4)>>,
     <<FwdLayer("Input", 4), FwdLayer("Dropout", 0), FwdLayer("Dense", 2)>>,
     <<FwdLayer("Input", 4), FwdLayer("LSTM", 0)>>}

FwdDecoderLists ==
    {<<FwdLayer("Dense", 4)>>,
     <<FwdLayer("Dropout", 0), FwdLayer("Dense", 4)>>,
     <<FwdLayer("GRU", 0), FwdLayer("Dense", 4)>>}

FwdNets ==
    {[class |-> "Sequential", layers |-> ls, enable_padding |-> ep, padding_size |-> ps] :
        ls \in FwdLayerLists, ep \in BOOLEAN, ps \in 1..MaxPadding}
    \cup {[class |-> "Autoencoder", encoder_layers |-> e, decoder_layers |-> d,
           variational |-> v, enable_padding |-> ep, padding_size |-> ps] :
             e \in FwdEncoderLists, d \in FwdDecoderLists, v \in BOOLEAN,
             ep \in BOOLEAN, ps \in 1..MaxPadding}

\* The calls: train_on_batch(x_batch), evaluate(x_test, y_test, batch_size)
\* and predict(X) (with output_latent, Autoencoder only) on n rows.
FwdCalls ==
    {[entry |-> "train_on_batch", n |-> n, batch_size |-> n, output_latent |-> FALSE] :
        n \in 1..MaxRows}
    \cup {[entry |-> "evaluate", n |-> n, batch_size |-> b, output_latent |-> FALSE] :
             n \in 1..MaxRows, b \in 1..MaxBatch}
    \cup {[entry |-> "predict", n |-> n, batch_size |-> n, output_latent |-> ol] :
             n \in 1..MaxRows, ol \in BOOLEAN}

\* isinstance(layer, (Dropout, LSTM, Bidirectional, GRU))
ModeDependent(layer) == layer.type \in {"Dropout", "LSTM", "Bidirectional", "GRU"}

\* layer.forward_pass: a layer keeps the rows; a Dense layer sets the width.
LayerOutput(layer, pipe, i, X) ==
    [rows |-> X.rows,
     width |-> IF layer.type = "Dense" THEN layer.units ELSE X.width,
     via |-> Append(X.via, pipe \o ToString(i))]

\* Padding that adds a whole block to a batch that needs none.
PaddedRowsAlways(n, p) == (n \div p + 1) * p

\* (original_shape[0] + padding_size - 1) // padding_size * padding_size
PaddedRows(n, p) == ((n + p - 1) \div p) * p

\* padded_X = zeros(padded_shape); padded_X[:original_shape[0]] = X
Pad(X, p) ==
    LET n == Len(X.rows)
        P == PaddedRows(n, p)
    IN  IF P # n
        THEN [X EXCEPT !.rows = X.rows \o [k \in 1..(P - n) |-> 0]]
        ELSE X

\* X[:original_shape[0]]
Truncate(X, n) == [X EXCEPT !.rows = SubSeq(X.rows, 1, Min(n, Len(X.rows)))]

\* Autoencoder._reparameterize on the two halves of the encoder's output.
Reparameterize(X) ==
    [rows |-> X.rows, width |-> X.width \div 2, via |-> Append(X.via, "reparameterize")]

\* Autoencoder.predict runs the layers itself; every other entry point goes
\* through forward_pass.
UsesForwardPass == ~ (fwd_net.class = "Autoencoder" /\ fwd_call.entry = "predict")

\* The rows of the batch in hand: evaluate slices x_test, train_on_batch and
\* predict take the whole input.
BatchRows ==
    IF fwd_call.entry = "evaluate"
    THEN Min(fwd_call.batch_size, fwd_call.n - fwd_offset)
    ELSE fwd_call.n

\* The training argument a mode-dependent layer's forward_pass is called
\* with: forward_pass hands on its own (True by default, False from evaluate
\* and predict); Autoencoder.predict passes none.
TrainingArg ==
    IF ~ UsesForwardPass THEN "default"
    ELSE IF fwd_call.entry = "train_on_batch" THEN "True" ELSE "False"

FwdPipeline(pc_) ==
    CASE pc_ = "layers" -> fwd_net.layers
      [] pc_ = "encoder" -> fwd_net.encoder_layers
      [] pc_ = "decoder" -> fwd_net.decoder_layers

InitForward ==
    /\ IdleAdd
    /\ IdleFit
    /\ IdleSave
    /\ IdleStep
    /\ IdlePredict
    /\ IdleGen
    /\ IdleInput
    /\ fwd_net \in FwdNets
    /\ fwd_call \in FwdCalls
    /\ fwd_call.output_latent => fwd_net.class = "Autoencoder"
    /\ fwd_pc = "call"
    /\ fwd_i = 1
    /\ fwd_offset = 0
    /\ fwd_X = NoArray
    /\ latent_space = NoArray
    /\ predictions = NoArray
    /\ fwd_returned = <<>>
    /\ fwd_log = <<>>
    /\ IdleMasks
    /\ IdleClip

\* The entry point up to the first layer: the batch is taken and, in
\* forward_pass with enable_padding, padded.
BeginForward ==
    /\ fwd_pc = "call"
    /\ LET batch == [rows |-> [k \in 1..BatchRows |-> fwd_offset + k],
                     width |-> FwdPipeline(IF fwd_net.class = "Sequential"
                                           THEN "layers" ELSE "encoder")[1].units,
                     via |-> <<>>]
       IN  fwd_X' = IF UsesForwardPass /\ fwd_net.enable_padding
                    THEN Pad(batch, fwd_net.padding_size)
                    ELSE batch
    /\ fwd_pc' = IF fwd_net.class = "Sequential" THEN "layers" ELSE "encoder"
    /\ fwd_i' = 1
    /\ UNCHANGED <<notFwdVars, fwd_net, fwd_call, fwd_offset, latent_space,
                   predictions, fwd_returned, fwd_log>>

\* One iteration of a layer loop.
ForwardLayer ==
    /\ fwd_pc \in {"layers", "encoder", "decoder"}
    /\ LET ls == FwdPipeline(fwd_pc)
           layer == ls[fwd_i]
       IN  /\ fwd_log' = Append(fwd_log,
                  [pipeline |-> fwd_pc, index |-> fwd_i, type |-> layer.type,
                   training |-> IF ModeDependent(layer) /\ UsesForwardPass
                                THEN TrainingArg ELSE "default",
                   input |-> fwd_X])
           /\ fwd_X' = LayerOutput(layer, fwd_pc, fwd_i, fwd_X)
           /\ IF fwd_i < Len(ls)
              THEN fwd_i' = fwd_i + 1 /\ fwd_pc' = fwd_pc
              ELSE fwd_i' = 1 /\ fwd_pc' = IF fwd_pc = "encoder" THEN "latent" ELSE "end"
    /\ UNCHANGED <<notFwdVars, fwd_net, fwd_call, fwd_offset, latent_space,
                   predictions, fwd_returned>>

\* Between the encoder and the decoder.  forward_pass stores latent_space
\* (the reparameterized sample when variational) and sets decoded = encoded;
\* predict returns encoded when output_latent.
Latent ==
    /\ fwd_pc = "latent"
    /\ IF UsesForwardPass
       THEN /\ latent_space' = IF fwd_net.variational
                               THEN Reparameterize(fwd_X) ELSE fwd_X
            /\ fwd_pc' = "decoder"
            /\ fwd_returned' = fwd_returned
       ELSE /\ latent_space' = latent_space
            /\ fwd_pc' = IF fwd_call.output_latent THEN "done" ELSE "decoder"
            /\ fwd_returned' = IF fwd_call.output_latent
                               THEN Append(fwd_returned, fwd_X) ELSE fwd_returned
    /\ UNCHANGED <<notFwdVars, fwd_net, fwd_call, fwd_i, fwd_offset, fwd_X,
                   predictions, fwd_log>>

\* After the last layer: the padding rows are cut off, the result is stored
\* (by Sequential.forward_pass, and by both train_on_batch) and returned;
\* evaluate goes on to its next batch.
EndForward ==
    /\ fwd_pc = "end"
    /\ LET cut == /\ UsesForwardPass
                  /\ fwd_net.enable_padding
                  /\ PaddedRows(BatchRows, fwd_net.padding_size) # BatchRows
           out == IF cut THEN Truncate(fwd_X, BatchRows) ELSE fwd_X
           more == fwd_call.entry = "evaluate"
                      /\ fwd_offset + fwd_call.batch_size < fwd_call.n
       IN  /\ fwd_returned' = Append(fwd_returned, out)
           /\ predictions' = IF fwd_net.class = "Sequential"
                                 \/ fwd_call.entry = "train_on_batch"
                              THEN out ELSE predictions
           /\ fwd_offset' = IF more THEN fwd_offset + fwd_call.batch_size ELSE fwd_offset
           /\ fwd_pc' = IF more THEN "call" ELSE "done"
           /\ fwd_X' = out
    /\ UNCHANGED <<notFwdVars, fwd_net, fwd_call, fwd_i, latent_space, fwd_log>>

NextForward ==
    \/ BeginForward
    \/ ForwardLayer
    \/ Latent
    \/ EndForward

SpecForward == InitForward /\ [][NextForward]_vars

\* C24: in every training and inference entry point of Sequential and
\* Autoencoder every mode-dependent layer (Dropout, LSTM, GRU, Bidirectional)
\* is handed the training flag explicitly: training=False during predict and
\* evaluate, training=True during train_on_batch.
C24_TrainingFlagHandedOn ==
    \A k \in 1..Len(fwd_log) :
       fwd_log[k].type \in {"Dropout", "LSTM", "GRU", "Bidirectional"} =>
          fwd_log[k].training =
             IF fwd_call.entry = "train_on_batch" THEN "True" ELSE "False"

\* The call just logged is that of the first decoder layer, in forward_pass.
FirstDecoderCall ==
    /\ fwd_net.class = "Autoencoder"
    /\ UsesForwardPass
    /\ fwd_log # <<>>
    /\ fwd_log[Len(fwd_log)].pipeline = "decoder"
    /\ fwd_log[Len(fwd_log)].index = 1

\* The feature width of the encoder's final output.
EncoderWidth ==
    LET e == fwd_net.encoder_layers
        declared == {q \in DOMAIN e : e[q].type \in {"Input", "Dense"}}
    IN  e[CHOOSE q \in declared : \A r \in declared : r <= q].units

\* C25: in Autoencoder.forward_pass with variational mode the input of the
\* first decoder layer is the reparameterized latent sample stored as
\* latent_space, of half the encoder output's feature width; without it the
\* decoder input is the raw encoder output.
C25_DecoderInput ==
    FirstDecoderCall =>
       LET input == fwd_log[Len(fwd_log)].input
           n == Len(fwd_net.encoder_layers)
       IN  IF fwd_net.variational
           THEN /\ input = latent_space
                /\ input.via[Len(input.via)] = "reparameterize"
                /\ 2 * input.width = EncoderWidth
           ELSE /\ Len(input.via) = n
                /\ input.via[n] = "encoder" \o ToString(n)
                /\ input.width = EncoderWidth

\* forward_pass with enable_padding is at work on a batch.
PaddingForward ==
    /\ UsesForwardPass
    /\ fwd_net.enable_padding
    /\ fwd_pc \in {"layers", "encoder", "latent", "decoder", "end"}

\* The smallest multiple of p that is at least n.
SmallestMultiple(n, p) == CHOOSE m \in n..(n + p - 1) : m % p = 0

\* The rows evaluate's k-th batch holds (the whole input for the others).
RowsOfBatch(k) ==
    LET from == (k - 1) * fwd_call.batch_size
    IN  [r \in 1..Min(fwd_call.batch_size, fwd_call.n - from) |-> from + r]

\* C28: in forward_pass with enable_padding and padding_size p, for a batch
\* of n rows every layer receives P rows, P the smallest multiple of p with
\* P >= n, rows 0..n-1 the input and the rest zero; the returned output and
\* the stored predictions have exactly the n rows; a batch whose n is a
\* multiple of p is passed through unpadded.
C28_Padding ==
    /\ (PaddingForward /\ fwd_log # <<>> /\ ~ (fwd_i = 1 /\ fwd_pc \in {"layers", "encoder"})) =>
          LET rows == fwd_log[Len(fwd_log)].input.rows
              n == BatchRows
              P == SmallestMultiple(n, fwd_net.padding_size)
          IN  /\ Len(rows) = P
              /\ P - n < fwd_net.padding_size
              /\ \A r \in 1..P : rows[r] = IF r <= n THEN fwd_offset + r ELSE 0
    /\ (UsesForwardPass /\ fwd_net.enable_padding) =>
          /\ \A k \in 1..Len(fwd_returned) : fwd_returned[k].rows = RowsOfBatch(k)
          /\ (fwd_returned # <<>> /\ predictions # NoArray) =>
                 predictions.rows = RowsOfBatch(Len(fwd_returned))

\* evaluate on a padding model has returned after two batches, the last of
\* which needed padding.
C28_Witness ==
    /\ UsesForwardPass
    /\ fwd_net.enable_padding
    /\ fwd_pc = "done"
    /\ Len(fwd_returned) = 2
    /\ Len(fwd_returned[2].rows) % fwd_net.padding_size # 0
    /\ fwd_net.class = "Sequential"
    /\ predictions.rows = fwd_returned[2].rows

-----------------------------------------------------------------------------
(* The attention masks: Transformer.create_masks on batches of token        *)
(* sequences.  A mask is written without its axes of length one: the        *)
(* padding masks by (row, key position), the combined mask by (row, query   *)
(* position, key position).                                                 *)

PAD_IDX == 0
MaxMaskBatch == 2     \* inp and tar have 1..MaxMaskBatch rows
MaxMaskLen == 2       \* and 1..MaxMaskLen positions

\* Tokens of a sequence: the PAD index and one other.
MaskTokens == {PAD_IDX, 1}

\* (seq == self.PAD_IDX)[:, np.newaxis, np.newaxis, :]
create_padding_mask(seq) ==
    [b \in DOMAIN seq |-> [k \in DOMAIN seq[b] |-> seq[b][k] = PAD_IDX]]

\* A look-ahead mask that hides the position itself as well.
create_look_ahead_mask_diagonal(size) ==
    [i \in 1..size |-> [k \in 1..size |-> k >= i]]

\* np.triu(np.ones((size, size)), k=1)
create_look_ahead_mask(size) ==
    [i \in 1..size |-> [k \in 1..size |-> k > i]]

\* The three masks; the look-ahead mask is broadcast over the rows and the
\* target padding mask over the query positions.
create_masks(inp, tar) ==
    LET size == Len(tar[1])
        enc_padding_mask == create_padding_mask(inp)
        dec_padding_mask == create_padding_mask(inp)
        look_ahead_mask == create_look_ahead_mask(size)
        dec_target_padding_mask == create_padding_mask(tar)
        combined_mask ==
            [b \in DOMAIN tar |-> [i \in 1..size |-> [k \in 1..size |->
                dec_target_padding_mask[b][k] \/ look_ahead_mask[i][k]]]]
    IN  <<enc_padding_mask, combined_mask, dec_padding_mask>>

InitMasks ==
    /\ IdleAdd
    /\ IdleFit
    /\ IdleSave
    /\ IdleStep
    /\ IdlePredict
    /\ IdleGen
    /\ IdleInput
    /\ IdleForward
    /\ \E B \in 1..MaxMaskBatch, S \in 1..MaxMaskLen, T \in 1..MaxMaskLen :
          mask_args \in [inp : [1..B -> [1..S -> MaskTokens]],
                         tar : [1..B -> [1..T -> MaskTokens]]]
    /\ masks = <<>>
    /\ mask_pc = "call"
    /\ IdleClip

CreateMasks ==
    /\ mask_pc = "call"
    /\ masks' = create_masks(mask_args.inp, mask_args.tar)
    /\ mask_pc' = "done"
    /\ UNCHANGED <<notMaskVars, mask_args>>

NextMasks == CreateMasks

SpecMasks == InitMasks /\ [][NextMasks]_vars

\* C27: create_masks returns three boolean masks: the encoder padding mask
\* is true at (b, j) exactly when inp[b][j] is the PAD index; the combined
\* decoder mask is true at (b, i, j) exactly when j > i or tar[b][j] is the
\* PAD index; the cross-attention padding mask equals the encoder padding
\* mask.
C27_Masks ==
    mask_pc = "done" =>
       LET inp == mask_args.inp
           tar == mask_args.tar
       IN  /\ Len(masks) = 3
           /\ DOMAIN masks[1] = DOMAIN inp
           /\ \A b \in DOMAIN inp :
                 /\ DOMAIN masks[1][b] = DOMAIN inp[b]
                 /\ \A k \in DOMAIN inp[b] :
                       masks[1][b][k] = (inp[b][k] = PAD_IDX)
           /\ DOMAIN masks[2] = DOMAIN tar
           /\ \A b \in DOMAIN tar :
                 \A i, k \in DOMAIN tar[b] :
                    masks[2][b][i][k] = (k > i \/ tar[b][k] = PAD_IDX)
           /\ masks[3] = masks[1]

\* Masks of a batch of two rows with a padded position in the source and in
\* the target of one row and none in the other.
C27_Witness ==
    /\ mask_pc = "done"
    /\ Len(mask_args.inp) = 2
    /\ Len(mask_args.tar[1]) = 2
    /\ masks[1][1] # masks[1][2]
    /\ masks[2][1][2][1]
    /\ ~ masks[2][2][2][1]

-----------------------------------------------------------------------------
(* Gradient clipping: the clip_gradients of Autoencoder.backward_pass.  A   *)
(* tensor has two elements; the inputs are the integer tensors whose L2     *)
(* norm is an integer, so that every stage is exact.  The division by the   *)
(* standard deviation is kept symbolic.                                     *)

MaxGrad == 12         \* the elements of a gradient are in -MaxGrad..MaxGrad

Thresholds == {0, 5, 12}

Rat(n, d) == [num |-> n, den |-> d]

Tensor(es) == [is_none |-> FALSE, elems |-> es, std_of |-> <<>>]

IsSquare(n) == \E r \in 0..(2 * MaxGrad) : r * r = n

\* np.linalg.norm of an integer tensor with an integer norm.
Norm(a, b) == CHOOSE r \in 0..(2 * MaxGrad) : r * r = a * a + b * b

Gradients ==
    {NoGradient}
    \cup {Tensor(<<Rat(a, 1), Rat(b, 1)>>) :
            <<a, b>> \in {ab \in (-MaxGrad..MaxGrad) \X (-MaxGrad..MaxGrad) :
                             IsSquare(ab[1] * ab[1] + ab[2] * ab[2])}}

\* gradient * (threshold / grad_norm), when grad_norm > threshold
Rescale(es, T) ==
    LET grad_norm == Norm(es[1].num, es[2].num)
    IN  IF grad_norm > T
        THEN [k \in DOMAIN es |-> Rat(es[k].num * T, grad_norm)]
        ELSE es

\* np.clip(gradient, -10, 10)
Clip(es) ==
    [k \in DOMAIN es |->
        IF es[k].num > 10 * es[k].den THEN Rat(10, 1)
        ELSE IF es[k].num < -10 * es[k].den THEN Rat(-10, 1)
        ELSE es[k]]

\* gradient / (np.std(gradient) + 1e-8)
Normalize(es) == [is_none |-> FALSE, elems |-> es, std_of |-> es]

\* The stages clip_gradients runs, and its result.
ClipStages(g, T) ==
    IF g.is_none \/ ~ (T > 0)
    THEN <<>>
    ELSE <<[stage |-> "rescale", out |-> Rescale(g.elems, T)],
           [stage |-> "clip", out |-> Clip(Rescale(g.elems, T))],
           [stage |-> "normalize", out |-> Clip(Rescale(g.elems, T))]>>

clip_gradients(g, T) ==
    IF g.is_none THEN NoGradient
    ELSE IF T > 0 THEN Normalize(Clip(Rescale(g.elems, T)))
    ELSE g

InitClip ==
    /\ IdleAdd
    /\ IdleFit
    /\ IdleSave
    /\ IdleStep
    /\ IdlePredict
    /\ IdleGen
    /\ IdleInput
    /\ IdleForward
    /\ IdleMasks
    /\ clip_args \in [gradient : Gradients, threshold : Thresholds]
    /\ clip_stages = <<>>
    /\ clip_result = NoGradient
    /\ clip_pc = "call"

ClipGradients ==
    /\ clip_pc = "call"
    /\ clip_stages' = ClipStages(clip_args.gradient, clip_args.threshold)
    /\ clip_result' = clip_gradients(clip_args.gradient, clip_args.threshold)
    /\ clip_pc' = "done"
    /\ UNCHANGED <<notClipVars, clip_args>>

NextClip == ClipGradients

SpecClip == InitClip /\ [][NextClip]_vars

\* The square of the L2 norm of es equals the square of T.
HasNorm(es, T) ==
    es[1].num * es[1].num * es[2].den * es[2].den
       + es[2].num * es[2].num * es[1].den * es[1].den
    = T * T * es[1].den * es[1].den * es[2].den * es[2].den

\* Fraction y is fraction x cut to [-10, 10].
IsClipped(x, y) ==
    IF x.num > 10 * x.den THEN y.num = 10 * y.den
    ELSE IF x.num < -10 * x.den THEN y.num = -10 * y.den
    ELSE y = x

\* C29: the Autoencoder's gradient clipping returns a None gradient
\* unchanged and otherwise applies three stages in this order: the tensor is
\* rescaled to L2 norm T when its norm exceeds the threshold T (and is
\* unchanged by this stage otherwise), then every element is clipped to
\* [-10, 10], then the tensor is divided by its standard deviation plus a
\* small epsilon.
C29_ThreeStages ==
    clip_pc = "done" =>
       LET g == clip_args.gradient
           T == clip_args.threshold
       IN  IF g.is_none
           THEN clip_result = NoGradient /\ clip_stages = <<>>
           ELSE /\ Len(clip_stages) = 3
                /\ clip_stages[1].stage = "rescale"
                /\ clip_stages[2].stage = "clip"
                /\ clip_stages[3].stage = "normalize"
                /\ LET s1 == clip_stages[1].out
                       s2 == clip_stages[2].out
                   IN  /\ IF Norm(g.elems[1].num, g.elems[2].num) > T
                          THEN HasNorm(s1, T)
                          ELSE s1 = g.elems
                       /\ \A k \in DOMAIN s1 : IsClipped(s1[k], s2[k])
                       /\ ~ clip_result.is_none
                       /\ clip_result.elems = s2
                       /\ clip_result.std_of = s2

=============================================================================
